---- MODULE Spec2Model ----
(***************************************************************************)
(* A model of the Price-Label extraction pipeline:                         *)
(*   src/src/pdf_reader.py   page text acquisition (native vs OCR)         *)
(*   src/src/extractors.py   field extractors and merge_extraction         *)
(*   src/src/doc_builder.py  temperature canonicalization and grouping     *)
(*   src/src/pipeline.py     run_extraction_pipeline                       *)
(*                                                                         *)
(* Text is a sequence of characters, each character a one-element string;  *)
(* the two non-ASCII characters the patterns mention are written "deg"     *)
(* (the degree sign) and "ndash" (the en dash).  The empty text is << >>.  *)
(***************************************************************************)
EXTENDS Integers, Sequences, FiniteSets, TLC

(***************************************************************************)
(* Bounds of the model.                                                    *)
(***************************************************************************)
MaxPositions == 2
MaxPages == 2

\* positions of a record handed to _group_positions_by_temperature
MaxGroupPositions == 3

\* rows of a PI that row_pattern matches
MaxRows == 2

\* name candidates, and packing candidates, of the description lines of a PI
MaxCandidates == 2

\* numbers in the goods block of a PI
MaxBlockNumbers == 3

\* rows of the review table
MaxTableRows == 2

\* changes the user makes to the review table
MaxEdits == 2

(***************************************************************************)
(* Characters and the str / re primitives the code uses.                   *)
(***************************************************************************)
Digits == <<"0", "1", "2", "3", "4", "5", "6", "7", "8", "9">>

\* str.lower() of each upper-case letter
LowerOf ==
  [A |-> "a", B |-> "b", C |-> "c", D |-> "d", E |-> "e", F |-> "f", G |-> "g",
   H |-> "h", I |-> "i", J |-> "j", K |-> "k", L |-> "l", M |-> "m", N |-> "n",
   O |-> "o", P |-> "p", Q |-> "q", R |-> "r", S |-> "s", T |-> "t", U |-> "u",
   V |-> "v", W |-> "w", X |-> "x", Y |-> "y", Z |-> "z"]

\* str.upper() of each lower-case letter
UpperOf ==
  [a |-> "A", b |-> "B", c |-> "C", d |-> "D", e |-> "E", f |-> "F", g |-> "G",
   h |-> "H", i |-> "I", j |-> "J", k |-> "K", l |-> "L", m |-> "M", n |-> "N",
   o |-> "O", p |-> "P", q |-> "Q", r |-> "R", s |-> "S", t |-> "T", u |-> "U",
   v |-> "V", w |-> "W", x |-> "X", y |-> "Y", z |-> "Z"]

IsDigit(c) == c \in {"0", "1", "2", "3", "4", "5", "6", "7", "8", "9"}

IsSpace(c) == c \in {" ", "\n", "\t"}

IsUpper(c) == c \in DOMAIN LowerOf

\* [A-Za-z]
IsLetter(c) == c \in DOMAIN LowerOf \/ c \in DOMAIN UpperOf

IsAlnum(c) == IsDigit(c) \/ IsLetter(c)

IsWordChar(c) == IsAlnum(c) \/ c = "_"

DigitVal(c) == (CHOOSE i \in 1..10 : Digits[i] = c) - 1

LowerChar(c) == IF c \in DOMAIN LowerOf THEN LowerOf[c] ELSE c

\* str.lower()
Lower(s) == [i \in 1..Len(s) |-> LowerChar(s[i])]

\* the character at p, or "" past either end
At(s, p) == IF p \in 1..Len(s) THEN s[p] ELSE ""

\* s[p:p+len(w)] == w
HasAt(s, p, w) ==
  /\ p >= 1
  /\ p + Len(w) - 1 <= Len(s)
  /\ \A i \in 1..Len(w) : s[p + i - 1] = w[i]

\* w in s
Contains(s, w) == \E p \in 1..(Len(s) + 1) : HasAt(s, p, w)

\* F(v), with v evaluated once
Bind(v, F(_)) == CHOOSE result \in {F(x) : x \in {v}} : TRUE

\* str.strip()
RECURSIVE StripLeft(_)
StripLeft(s) == IF s # << >> /\ IsSpace(s[1]) THEN StripLeft(Tail(s)) ELSE s

RECURSIVE StripRight(_)
StripRight(s) ==
  IF s # << >> /\ IsSpace(s[Len(s)]) THEN StripRight(SubSeq(s, 1, Len(s) - 1)) ELSE s

Strip(s) == StripRight(StripLeft(s))

\* re.sub(r"\s+", " ", s)
CollapseSpaces(s) ==
  SelectSeq([i \in 1..Len(s) |->
               IF ~IsSpace(s[i]) THEN s[i]
               ELSE IF i < Len(s) /\ IsSpace(s[i + 1]) THEN ""
               ELSE " "],
            LAMBDA c : c # "")

\* the \s* of a pattern: the first position at or after p that holds no space
RECURSIVE SkipSpaces(_, _)
SkipSpaces(s, p) ==
  IF p <= Len(s) /\ IsSpace(s[p]) THEN SkipSpaces(s, p + 1) ELSE p

\* the number of consecutive digits from p on
RECURSIVE DigitRun(_, _)
DigitRun(s, p) ==
  IF p <= Len(s) /\ IsDigit(s[p]) THEN 1 + DigitRun(s, p + 1) ELSE 0

\* int() of a digit string
RECURSIVE DigitsToNat(_)
DigitsToNat(s) ==
  IF s = << >> THEN 0
  ELSE 10 * DigitsToNat(SubSeq(s, 1, Len(s) - 1)) + DigitVal(s[Len(s)])

\* int() of an optionally signed digit string
ParseInt(s) ==
  IF s[1] = "-" THEN 0 - DigitsToNat(Tail(s))
  ELSE IF s[1] = "+" THEN DigitsToNat(Tail(s))
  ELSE DigitsToNat(s)

\* str() of a natural number
RECURSIVE NatToStr(_)
NatToStr(n) ==
  IF n < 10 THEN <<Digits[n + 1]>>
  ELSE NatToStr(n \div 10) \o <<Digits[(n % 10) + 1]>>

\* str() of an integer
IntToStr(v) == IF v < 0 THEN <<"-">> \o NatToStr(0 - v) ELSE NatToStr(v)

\* str.splitlines()
RECURSIVE SplitLines(_)
SplitLines(s) ==
  IF s = << >> THEN << >>
  ELSE IF \E i \in 1..Len(s) : s[i] = "\n"
       THEN LET i == CHOOSE k \in 1..Len(s) :
                       /\ s[k] = "\n"
                       /\ \A j \in 1..(k - 1) : s[j] # "\n"
            IN  <<SubSeq(s, 1, i - 1)>> \o SplitLines(SubSeq(s, i + 1, Len(s)))
       ELSE <<s>>

\* sep.join(parts)
RECURSIVE Join(_, _)
Join(sep, parts) ==
  IF parts = << >> THEN << >>
  ELSE IF Len(parts) = 1 THEN parts[1]
  ELSE parts[1] \o sep \o Join(sep, Tail(parts))

\* str.replace(old, new)
RECURSIVE Replace(_, _, _)
Replace(s, old, new) ==
  IF s = << >> THEN << >>
  ELSE IF HasAt(s, 1, old)
       THEN new \o Replace(SubSeq(s, Len(old) + 1, Len(s)), old, new)
       ELSE <<s[1]>> \o Replace(Tail(s), old, new)

\* a or b, on text
StrOr(a, b) == IF a # << >> THEN a ELSE b

SetMax(S) == CHOOSE x \in S : \A y \in S : y <= x

SetMin(S) == CHOOSE x \in S : \A y \in S : x <= y

NoMatch == [ok |-> FALSE]

\* a greedy quantifier with backtracking: of the ways to match the first part
\* (ends), the longest one after which the rest of the pattern (Try) matches
GreedyMatch(ends, Try(_)) ==
  LET good == {e \in ends : Try(e).ok}
  IN  IF good = {} THEN NoMatch ELSE Try(SetMax(good))

\* re.search: the match (MatchAt) at the leftmost position of 1..n that has one
FirstMatch(n, MatchAt(_)) ==
  LET ps == {p \in 1..n : MatchAt(p).ok}
  IN  IF ps = {} THEN NoMatch ELSE MatchAt(SetMin(ps)) @@ [start |-> SetMin(ps)]

\* an optional group: the match that takes it when there is one, else the
\* match that skips it
PreferFirst(taken, skipped) == IF taken.ok THEN taken ELSE skipped

\* the rest of a pattern from q, where q = 0 says the part before it failed
IfMatched(q, Rest(_)) == IF q = 0 THEN 0 ELSE Rest(q)

(***************************************************************************)
(* Calls that can raise.  The outcome of a call is Raised, or Returned(v)  *)
(* for the value v it returned.                                            *)
(***************************************************************************)
Raised == [raised |-> TRUE]

Returned(v) == [raised |-> FALSE, value |-> v]

\* the rest of a computation, on the value a call returned; a raise passes through
Then(outcome, Rest(_)) ==
  Bind(outcome, LAMBDA o : IF o.raised THEN Raised ELSE Rest(o.value))

\* xs[i], counted from 0, and from the end when i is negative: IndexError outside
PyIndex(xs, i) ==
  LET k == IF i < 0 THEN Len(xs) + i + 1 ELSE i + 1
  IN  IF k \in 1..Len(xs) THEN Returned(xs[k]) ELSE Raised

\* m.group(1) of what re.search returned: AttributeError on None
PyGroup(m) == IF m.ok THEN Returned(m.g1) ELSE Raised

\* int(s): ValueError unless s is an optionally signed run of digits
PyInt(s) ==
  LET body == IF s # << >> /\ s[1] \in {"+", "-"} THEN Tail(s) ELSE s
  IN  IF body # << >> /\ \A i \in 1..Len(body) : IsDigit(body[i])
      THEN Returned(ParseInt(s))
      ELSE Raised

(***************************************************************************)
(* Text literals of the source.                                            *)
(***************************************************************************)
\* "+15C to +25C ambient"
DEFAULT_STORAGE_TEMPERATURE_EN ==
  <<"+", "1", "5", "C", " ", "t", "o", " ", "+", "2", "5", "C", " ",
    "a", "m", "b", "i", "e", "n", "t">>

\* doc_builder.py carries its own copy of the same literal
DocBuilder_DEFAULT_STORAGE_TEMPERATURE_EN ==
  <<"+", "1", "5", "C", " ", "t", "o", " ", "+", "2", "5", "C", " ",
    "a", "m", "b", "i", "e", "n", "t">>

S_room_temperature ==
  <<"r", "o", "o", "m", " ", "t", "e", "m", "p", "e", "r", "a", "t", "u", "r", "e">>

S_ambient == <<"a", "m", "b", "i", "e", "n", "t">>

(***************************************************************************)
(* The pattern pieces shared by the temperature patterns.                  *)
(***************************************************************************)
\* [+-]?\d{1,2} from p: the positions just after each way of matching it
NumEnds(s, p) ==
  LET q == IF At(s, p) \in {"+", "-"} THEN p + 1 ELSE p
      r == DigitRun(s, q)
  IN  {q + k : k \in {j \in 1..2 : j <= r}}

\* f"+{v}" if v >= 0 else str(v)
FmtSigned(v) == IF v >= 0 THEN <<"+">> \o NatToStr(v) ELSE IntToStr(v)

(***************************************************************************)
(* doc_builder.py                                                          *)
(***************************************************************************)
\* re.sub(r"\s+", " ", (text or "").strip())
DocBuilder_clean_space(text) == CollapseSpaces(Strip(text))

\* \s*C  (IGNORECASE); 0 when it does not match
DocUnit(s, q) ==
  LET u == SkipSpaces(s, q)
  IN  IF LowerChar(At(s, u)) = "c" THEN u + 1 ELSE 0

\* \s*(?:to|ndash|-)  (IGNORECASE); 0 when it does not match
DocSep(s, q) ==
  LET u == SkipSpaces(s, q)
  IN  IF HasAt(Lower(s), u, <<"t", "o">>) THEN u + 2
      ELSE IF At(s, u) \in {"ndash", "-"} THEN u + 1
      ELSE 0

\* ([+-]?\d{1,2})\s*C from p2, the last part of the pattern of _normalize_temp,
\* after a first number s[p..e1-1]
DocSecondNumber(s, p, e1, p2) ==
  GreedyMatch(IF p2 = 0 THEN {} ELSE NumEnds(s, p2),
              LAMBDA e : [ok |-> DocUnit(s, e) # 0,
                          g1 |-> SubSeq(s, p, e1 - 1),
                          g2 |-> SubSeq(s, p2, e - 1),
                          end |-> DocUnit(s, e)])

\* the pattern of _normalize_temp from p, its first number ending before e1
DocTempTry(s, p, e1) ==
  DocSecondNumber(s, p, e1,
    IfMatched(IfMatched(DocUnit(s, e1), LAMBDA a : DocSep(s, a)),
              LAMBDA b : SkipSpaces(s, b)))

DocTempMatchAt(s, p) ==
  GreedyMatch(NumEnds(s, p), LAMBDA e1 : DocTempTry(s, p, e1))

\* re.search(r"([+-]?\d{1,2})\s*C\s*(?:to|ndash|-)\s*([+-]?\d{1,2})\s*C", t, re.IGNORECASE)
DocTempSearch(t) == FirstMatch(Len(t), LAMBDA p : DocTempMatchAt(t, p))

\* f"{_fmt(left)}C to {_fmt(right)}C"
FmtRange(left, right) ==
  FmtSigned(left) \o <<"C", " ", "t", "o", " ">> \o FmtSigned(right) \o <<"C">>

\* "room temperature" in low or "ambient" in low
SaysAmbient(low) == \E w \in {S_room_temperature, S_ambient} : Contains(low, w)

\* lines 55-64 of _normalize_temp, on the cleaned text and the pattern's match
DocTempResult(t, m) ==
  IF m.ok THEN FmtRange(ParseInt(m.g1), ParseInt(m.g2))
  ELSE IF SaysAmbient(Lower(t)) THEN DocBuilder_DEFAULT_STORAGE_TEMPERATURE_EN
  ELSE t

\* _normalize_temp once _clean_space has been applied
DocTempOfClean(t) == IF t = << >> THEN << >> ELSE DocTempResult(t, DocTempSearch(t))

_normalize_temp(temp) == DocTempOfClean(DocBuilder_clean_space(temp))

(***************************************************************************)
(* extractors.py: storage temperature                                      *)
(***************************************************************************)
\* \s*(?:deg?\s*[cfCF]); 0 when it does not match
ExtUnit(s, q) ==
  LET u == SkipSpaces(s, q)
      v == IF At(s, u) = "deg" THEN u + 1 ELSE u
      w == SkipSpaces(s, v)
  IN  IF LowerChar(At(s, w)) \in {"c", "f"} THEN w + 1 ELSE 0

\* \s*(?:to|and|ndash|-|~)  (IGNORECASE); 0 when it does not match
ExtSep(s, q) ==
  LET u == SkipSpaces(s, q)
      low == Lower(s)
      words == {w \in {<<"t", "o">>, <<"a", "n", "d">>} : HasAt(low, u, w)}
  IN  IF words # {} THEN u + Len(CHOOSE w \in words : TRUE)
      ELSE IF At(s, u) \in {"ndash", "-", "~"} THEN u + 1
      ELSE 0

\* (?:between|from|at) (IGNORECASE) from p: the position after it, 0 when absent
ExtPrefix(s, p) ==
  LET low == Lower(s)
      words == {w \in {<<"b", "e", "t", "w", "e", "e", "n">>, <<"f", "r", "o", "m">>,
                       <<"a", "t">>} : HasAt(low, p, w)}
  IN  IF words # {} THEN p + Len(CHOOSE w \in words : TRUE) ELSE 0

\* ([+-]?\d{1,2})\s*unit from p2, the last part of the range pattern, after a
\* first number s[q..e1-1]
ExtSecondNumber(s, q, e1, p2) ==
  GreedyMatch(IF p2 = 0 THEN {} ELSE NumEnds(s, p2),
              LAMBDA e : [ok |-> ExtUnit(s, e) # 0,
                          g1 |-> SubSeq(s, q, e1 - 1),
                          g2 |-> SubSeq(s, p2, e - 1),
                          end |-> ExtUnit(s, e)])

\* ([+-]?\d{1,2})\s*unit\s*sep\s*([+-]?\d{1,2})\s*unit from q, the first number
\* ending before e1
ExtRangeTry(s, q, e1) ==
  ExtSecondNumber(s, q, e1,
    IfMatched(IfMatched(ExtUnit(s, e1), LAMBDA a : ExtSep(s, a)),
              LAMBDA b : SkipSpaces(s, b)))

\* the range pattern from q, at a number
ExtRangeAt(s, q) == GreedyMatch(NumEnds(s, q), LAMBDA e1 : ExtRangeTry(s, q, e1))

\* \s* and the range pattern from q0
ExtRangeFrom(s, q0) == ExtRangeAt(s, SkipSpaces(s, q0))

\* the range pattern after the prefix (?:between|from|at), which ended at k
ExtRangeAfterPrefix(s, k) == IF k = 0 THEN NoMatch ELSE ExtRangeFrom(s, k)

\* the pattern of _normalize_storage_temperature from p: the prefix is optional
\* and taken when present
ExtTempMatchAt(s, p) ==
  PreferFirst(ExtRangeAfterPrefix(s, ExtPrefix(s, p)), ExtRangeFrom(s, p))

ExtTempSearch(text) == FirstMatch(Len(text), LAMBDA p : ExtTempMatchAt(text, p))

\* lines 472-481 of _normalize_storage_temperature, on the pattern's match
ExtTempResult(m) ==
  IF m.ok
  THEN Then(PyInt(m.g1), LAMBDA left :
         Then(PyInt(m.g2), LAMBDA right : Returned(FmtRange(left, right))))
  ELSE Returned(<< >>)

\* the outcome of a call of _normalize_storage_temperature
NormalizeStorageTemperatureCall(text) ==
  IF text = << >> THEN Returned(<< >>)
  ELSE IF SaysAmbient(Lower(text)) THEN Returned(DEFAULT_STORAGE_TEMPERATURE_EN)
  ELSE ExtTempResult(ExtTempSearch(text))

\* what _normalize_storage_temperature returns
_normalize_storage_temperature(text) == NormalizeStorageTemperatureCall(text).value

\* re.search(r"storage|store|shipping|transport|keep|maintain", line, re.IGNORECASE)
MsdsStorageLine(line) ==
  \E kw \in {<<"s", "t", "o", "r", "a", "g", "e">>, <<"s", "t", "o", "r", "e">>,
              <<"s", "h", "i", "p", "p", "i", "n", "g">>,
              <<"t", "r", "a", "n", "s", "p", "o", "r", "t">>, <<"k", "e", "e", "p">>,
              <<"m", "a", "i", "n", "t", "a", "i", "n">>} :
    Contains(Lower(line), kw)

\* [ln.strip() for ln in msds_text.splitlines() if ln.strip()]
StrippedLines(text) ==
  LET raw == SplitLines(text)
  IN  SelectSeq([i \in 1..Len(raw) |-> Strip(raw[i])], LAMBDA ln : ln # << >>)

\* the whole-text pattern of parse_msds_text from p: the prefix is required
MsdsTempMatchAt(s, p) == ExtRangeAfterPrefix(s, ExtPrefix(s, p))

\* m.group(0), or << >> when there is no match
Group0(text, m) == IF m.ok THEN SubSeq(text, m.start, m.end - 1) ELSE << >>

\* temp_match.group(0), or << >> when the pattern is not found
MsdsTempGroup0(text) ==
  Group0(text, FirstMatch(Len(text), LAMBDA p : MsdsTempMatchAt(text, p)))

\* the first call of a sequence that raised or returned a non-empty text,
\* or the empty text when there is none
FirstDecisive(outcomes) ==
  LET hits == {i \in 1..Len(outcomes) : outcomes[i].raised \/ outcomes[i].value # << >>}
  IN  IF hits = {} THEN Returned(<< >>) ELSE outcomes[SetMin(hits)]

\* the loop of lines 487-491: the first storage-related line whose
\* normalization is non-empty, normalized
MsdsFirstStorageLine(lines) ==
  FirstDecisive([i \in 1..Len(lines) |->
                   IF MsdsStorageLine(lines[i])
                   THEN NormalizeStorageTemperatureCall(lines[i])
                   ELSE Returned(<< >>)])

\* lines 489-504, given what the loop returned and what the whole-text pattern found
MsdsResult(msds_text, by_line, group0) ==
  IF by_line # << >> THEN Returned([storage_temperature |-> by_line])
  ELSE IF group0 # << >>
       THEN Then(NormalizeStorageTemperatureCall(group0), LAMBDA normalized :
              Returned([storage_temperature |-> normalized]))
  ELSE IF SaysAmbient(Lower(msds_text))
       THEN Returned([storage_temperature |-> DEFAULT_STORAGE_TEMPERATURE_EN])
  ELSE Returned([storage_temperature |-> << >>])

\* the outcome of a call of parse_msds_text
ParseMsdsTextCall(msds_text) ==
  Then(MsdsFirstStorageLine(StrippedLines(msds_text)), LAMBDA by_line :
    MsdsResult(msds_text, by_line, MsdsTempGroup0(msds_text)))

\* what parse_msds_text returns
parse_msds_text(msds_text) == ParseMsdsTextCall(msds_text).value

(***************************************************************************)
(* models.py: the records.  An optional number is << >> (None) or <<v>>.   *)
(* A dict is a function from its keys; an optional dict is                 *)
(* [none |-> TRUE] or [none |-> FALSE, items |-> dict].                    *)
(***************************************************************************)
None == << >>

EmptyDict == [k \in {} |-> << >>]

Position ==
  [code |-> << >>, name_en |-> << >>, name_ru |-> << >>, quantity |-> None,
   packing_en |-> << >>, packing_ru |-> << >>, unit_price |-> None,
   total_price |-> None, currency |-> << >>, storage_temperature |-> << >>]

ExtractedData ==
  [invoice_no |-> << >>, invoice_date |-> << >>, buyer_name |-> << >>,
   buyer_address |-> << >>, exporter_name |-> << >>, exporter_name_ru |-> << >>,
   exporter_address |-> << >>, terms_of_delivery |-> << >>,
   period_of_validity |-> << >>, specification_date |-> << >>,
   storage_temperature |-> << >>, positions |-> << >>, currency |-> << >>,
   raw |-> EmptyDict]

\* d or {}
DictOrEmpty(d) == IF d.none THEN EmptyDict ELSE d.items

\* a variant of GetOr that prefers the record's own value: other or d.get(key)
GetOr_RecordFirst(d, key, other) ==
  IF other # << >> THEN other
  ELSE IF key \in DOMAIN d THEN d[key] ELSE << >>

\* d.get(key) or other
GetOr(d, key, other) ==
  IF key \in DOMAIN d /\ d[key] # << >> THEN d[key] ELSE other

\* d.get(key, "")
GetDefault(d, key) == IF key \in DOMAIN d THEN d[key] ELSE << >>

(***************************************************************************)
(* extractors.py: merge_extraction                                         *)
(***************************************************************************)
\* a variant of MergedStorageTemperature without the substitution of the default
MergedStorageTemperature_NoDefault(pi_data, msds) ==
  GetOr(msds, "storage_temperature", pi_data.storage_temperature)

\* the document-level storage temperature after lines 518-520
MergedStorageTemperature(pi_data, msds) ==
  LET t == GetOr(msds, "storage_temperature", pi_data.storage_temperature)
  IN  IF t = << >> THEN DEFAULT_STORAGE_TEMPERATURE_EN ELSE t

\* a variant of MergePosition that assigns the document currency to every position
MergePosition_OverwriteCurrency(position, doc_currency, doc_temperature, packing_from_spec) ==
  [position EXCEPT
     !.currency = doc_currency,
     !.storage_temperature =
        IF position.storage_temperature = << >> THEN doc_temperature ELSE @,
     !.packing_en =
        IF position.packing_en = << >> /\ packing_from_spec # << >>
        THEN packing_from_spec ELSE @]

\* the body of the loop over pi_data.positions
MergePosition(position, doc_currency, doc_temperature, packing_from_spec) ==
  [position EXCEPT
     !.currency = IF position.currency = << >> THEN doc_currency ELSE @,
     !.storage_temperature =
        IF position.storage_temperature = << >> THEN doc_temperature ELSE @,
     !.packing_en =
        IF position.packing_en = << >> /\ packing_from_spec # << >>
        THEN packing_from_spec ELSE @]

\* a variant of merge_extraction that returns the positions last to first
merge_extraction_ReversePositions(pi_data, spec_data, msds_data) ==
  LET spec == DictOrEmpty(spec_data)
      msds == DictOrEmpty(msds_data)
      temperature == MergedStorageTemperature(pi_data, msds)
      packing_from_spec == GetDefault(spec, "packing")
  IN  [pi_data EXCEPT
         !.terms_of_delivery = GetOr(spec, "terms_of_delivery", @),
         !.period_of_validity = GetOr(spec, "period_of_validity", @),
         !.specification_date = GetOr(spec, "specification_date", @),
         !.storage_temperature = temperature,
         !.positions =
            [i \in 1..Len(pi_data.positions) |->
               MergePosition(pi_data.positions[Len(pi_data.positions) + 1 - i],
                             pi_data.currency, temperature, packing_from_spec)]]

merge_extraction(pi_data, spec_data, msds_data) ==
  LET spec == DictOrEmpty(spec_data)
      msds == DictOrEmpty(msds_data)
      temperature == MergedStorageTemperature(pi_data, msds)
      packing_from_spec == GetDefault(spec, "packing")
  IN  [pi_data EXCEPT
         !.terms_of_delivery = GetOr(spec, "terms_of_delivery", @),
         !.period_of_validity = GetOr(spec, "period_of_validity", @),
         !.specification_date = GetOr(spec, "specification_date", @),
         !.storage_temperature = temperature,
         !.positions =
            [i \in 1..Len(pi_data.positions) |->
               MergePosition(pi_data.positions[i], pi_data.currency,
                             temperature, packing_from_spec)]]

(***************************************************************************)
(* extractors.py: parse_pi_text and parse_specification_text.              *)
(* An operator named after a function of the source gives the outcome of   *)
(* the call.  The functions search the text with patterns; the model takes *)
(* what each search found (a match with its group, or NoMatch; the lines   *)
(* a scan collected) and follows the code from there on.                   *)
(* A float is the record [m, e] of the decimal m / 10^e with no trailing   *)
(* zero after the point.                                                   *)
(***************************************************************************)
\* re.sub(r"\s+", " ", value).strip()
_clean_space(value) == Strip(CollapseSpaces(value))

\* str.upper()
Upper(s) == [i \in 1..Len(s) |-> IF s[i] \in DOMAIN UpperOf THEN UpperOf[s[i]] ELSE s[i]]

\* len(re.findall(r"[A-Za-z]", x))
LetterCount(x) == Cardinality({i \in 1..Len(x) : IsLetter(x[i])})

\* \bw\b at p
WordAt(s, p, w) ==
  /\ HasAt(s, p, w)
  /\ ~IsWordChar(At(s, p - 1))
  /\ ~IsWordChar(At(s, p + Len(w)))

RECURSIVE Float(_, _)
Float(m, e) ==
  IF e > 0 /\ m % 10 = 0 THEN Float(m \div 10, e - 1) ELSE [m |-> m, e |-> e]

\* float() of digits with one optional point
FloatOfDigits(body) ==
  LET points == {i \in 1..Len(body) : body[i] = "."}
  IN  Float(DigitsToNat(SelectSeq(body, IsDigit)),
            IF points = {} THEN 0 ELSE Len(body) - SetMin(points))

\* float(c): ValueError unless c is an optional sign, then digits with at most
\* one point among them and at least one digit
PyFloat(c) ==
  LET signed == c # << >> /\ c[1] \in {"+", "-"}
      body == IF signed THEN Tail(c) ELSE c
  IN  IF /\ \A i \in 1..Len(body) : IsDigit(body[i]) \/ body[i] = "."
         /\ Cardinality({i \in 1..Len(body) : body[i] = "."}) <= 1
         /\ \E i \in 1..Len(body) : IsDigit(body[i])
      THEN Returned(IF signed /\ c[1] = "-"
                    THEN Float(0 - FloatOfDigits(body).m, FloatOfDigits(body).e)
                    ELSE FloatOfDigits(body))
      ELSE Raised

\* re.sub(r"[^\d.\-]", "", s)
KeepNumeric(s) == SelectSeq(s, LAMBDA c : IsDigit(c) \/ c \in {".", "-"})

\* a variant of FloatOrNone that gives zero for a candidate float() rejects
FloatOrNone_ZeroOnError(candidate) ==
  IF candidate = << >> THEN None
  ELSE IF PyFloat(candidate).raised THEN <<Float(0, 0)>>
  ELSE <<PyFloat(candidate).value>>

\* lines 40-45 of _to_float: the ValueError of float() is caught
FloatOrNone(candidate) ==
  IF candidate = << >> THEN None
  ELSE IF PyFloat(candidate).raised THEN None
  ELSE <<PyFloat(candidate).value>>

_to_float(value) ==
  Bind(KeepNumeric(Strip(Replace(Replace(value, <<" ">>, << >>), <<",">>, << >>))),
       FloatOrNone)

\* _find_first, over what re.search returned for each pattern in turn
_find_first(matches) ==
  LET hits == {i \in 1..Len(matches) : matches[i].ok}
  IN  IF hits = {} THEN Returned(<< >>)
      ELSE Then(PyGroup(matches[SetMin(hits)]), LAMBDA g : Returned(_clean_space(g)))

\* _extract_currency, over the first currency sign or word its tests found
\* (<< >> when none) and what the "(In XXX)" pattern returned
_extract_currency(sign_or_word, m) ==
  IF sign_or_word # << >> THEN Returned(sign_or_word)
  ELSE IF m.ok THEN PyGroup(m)
  ELSE Returned(<< >>)

\* _extract_invoice_date, over what its two patterns returned
_extract_invoice_date(named_month, numeric) ==
  IF named_month.ok THEN PyGroup(named_month)
  ELSE IF numeric.ok THEN Returned(numeric.g0)
  ELSE Returned(<< >>)

\* (?:\s*/\s*(?:vial|vials|ampoule|ampoules|unit|units|un|шт))?$ from r on;
\* the two Cyrillic letters are written "cyr_sha" and "cyr_te"
PackingTailAt(low, r) ==
  \/ r = Len(low) + 1
  \/ \E slash \in {SkipSpaces(low, r)} :
       /\ At(low, slash) = "/"
       /\ \E q \in {SkipSpaces(low, slash + 1)} :
            \E container \in {<<"v", "i", "a", "l">>, <<"v", "i", "a", "l", "s">>,
                               <<"a", "m", "p", "o", "u", "l", "e">>,
                               <<"a", "m", "p", "o", "u", "l", "e", "s">>,
                               <<"u", "n", "i", "t">>, <<"u", "n", "i", "t", "s">>,
                               <<"u", "n">>, <<"cyr_sha", "cyr_te">>} :
              /\ HasAt(low, q, container)
              /\ q + Len(container) = Len(low) + 1

\* (\d+\s*(?:mg|g|kg|ml|mcg)(...)?)$ from p on
PackingSuffixAt(low, p) ==
  /\ p <= Len(low)
  /\ IsDigit(low[p])
  /\ \E q \in {SkipSpaces(low, p + DigitRun(low, p))} :
       \E unit \in {<<"m", "g">>, <<"g">>, <<"k", "g">>, <<"m", "l">>, <<"m", "c", "g">>} :
         /\ HasAt(low, q, unit)
         /\ \E r \in {q + Len(unit)} : PackingTailAt(low, r)

\* str.rstrip(chars)
RECURSIVE RStrip(_, _)
RStrip(s, chars) ==
  IF s # << >> /\ s[Len(s)] \in chars THEN RStrip(SubSeq(s, 1, Len(s) - 1), chars) ELSE s

\* lines 93-95, given the positions where group 2 of the pattern can start:
\* the lazy (.*?) before it takes the leftmost
SplitAtSuffix(text, starts) ==
  IF starts = {} THEN <<text, << >> >>
  ELSE <<RStrip(_clean_space(SubSeq(text, 1, SetMin(starts) - 1)), {"-", "/"}),
         _clean_space(SubSeq(text, SetMin(starts), Len(text)))>>

SplitCleanLine(text) ==
  Bind(Lower(text), LAMBDA low :
    Bind({p \in 1..Len(text) : PackingSuffixAt(low, p)},
         LAMBDA starts : SplitAtSuffix(text, starts)))

_split_name_and_packing(line) == Bind(_clean_space(line), SplitCleanLine)

\* qty, unit, total = a, b, c
NumberTriple(a, b, c) ==
  IF a.raised \/ b.raised \/ c.raised THEN Raised
  ELSE Returned([qty |-> a.value, unit |-> b.value, total |-> c.value])

\* a number read from nums, as an optional number
Some(outcome) == Then(outcome, LAMBDA v : Returned(<<v>>))

\* a variant of GoodsBlockNumbers that takes the last three numbers from two on
GoodsBlockNumbers_ThreeFromTwo(nums) ==
  IF Len(nums) >= 2
  THEN NumberTriple(Some(PyIndex(nums, -3)), Some(PyIndex(nums, -2)), Some(PyIndex(nums, -1)))
  ELSE IF Len(nums) = 1
  THEN NumberTriple(Some(PyIndex(nums, 0)), Returned(None), Returned(None))
  ELSE NumberTriple(Returned(None), Returned(None), Returned(None))

\* lines 129-139 of _extract_goods_block_position
GoodsBlockNumbers(nums) ==
  IF Len(nums) >= 3
  THEN NumberTriple(Some(PyIndex(nums, -3)), Some(PyIndex(nums, -2)), Some(PyIndex(nums, -1)))
  ELSE IF Len(nums) = 2
  THEN NumberTriple(Returned(<<Float(1, 0)>>), Some(PyIndex(nums, -2)), Some(PyIndex(nums, -1)))
  ELSE IF Len(nums) = 1
  THEN NumberTriple(Some(PyIndex(nums, 0)), Returned(None), Returned(None))
  ELSE NumberTriple(Returned(None), Returned(None), Returned(None))

\* max(xs, key=lambda x: (len(re.findall(r"[A-Za-z]", x)), len(x))):
\* ValueError on an empty list, and the first of the largest otherwise
PyMaxByLetters(xs) ==
  LET Above(i, j) ==
        \/ LetterCount(xs[i]) > LetterCount(xs[j])
        \/ LetterCount(xs[i]) = LetterCount(xs[j]) /\ Len(xs[i]) > Len(xs[j])
  IN  IF xs = << >> THEN Raised
      ELSE Returned(xs[SetMin({i \in 1..Len(xs) : \A j \in 1..Len(xs) : ~Above(j, i)})])

\* lines 161-182 of _extract_goods_block_position
GoodsBlockPosition(name_and_packing, code, numbers, currency) ==
  [Position EXCEPT
     !.code = StrOr(code, <<"I", "T", "E", "M", "-", "1">>),
     !.name_en = name_and_packing[1],
     !.packing_en = name_and_packing[2],
     !.quantity = numbers.qty,
     !.unit_price = numbers.unit,
     !.total_price = numbers.total,
     !.currency = currency]

\* _extract_goods_block_position, over the goods block found in the PI text:
\* whether it has lines, the numbers of _extract_numbers, the lines kept as
\* name candidates, and what the two code patterns returned.  The result is
\* None or <<position>>.
_extract_goods_block_position(block, currency) ==
  IF ~block.found THEN Returned(None)
  ELSE Then(GoodsBlockNumbers(block.nums), LAMBDA numbers :
         IF block.name_candidates = << >> THEN Returned(None)
         ELSE Then(PyMaxByLetters(block.name_candidates), LAMBDA name_line :
                Then(_find_first(block.code), LAMBDA code :
                  Returned(<<GoodsBlockPosition(_split_name_and_packing(name_line),
                                                code, numbers, currency)>>))))

\* lines 200-211 of _extract_positions: the positions of the rows row_pattern matched
RowPositions(rows, currency) ==
  LET kept == SelectSeq(rows, LAMBDA row :
                Lower(row.code) \notin {<<"i", "n", "c", "o", "t", "e", "r", "m", "s">>,
                                        <<"i", "n", "v", "o", "i", "c", "e">>,
                                        <<"p", "a", "y", "m", "e", "n", "t">>,
                                        <<"t", "e", "r", "m", "s">>, <<"i", "n">>})
  IN  [i \in 1..Len(kept) |->
         [Position EXCEPT
            !.code = kept[i].code,
            !.quantity = _to_float(kept[i].qty),
            !.unit_price = _to_float(kept[i].unit),
            !.total_price = _to_float(kept[i].total),
            !.currency = currency]]

\* lines 244-250 of _extract_positions
RowsOrFallback(positions, block, currency) ==
  IF positions # << >> THEN Returned(positions)
  ELSE Then(_extract_goods_block_position(block, currency), LAMBDA fallback :
         Returned(IF fallback # None THEN fallback
                  ELSE <<[Position EXCEPT !.code = <<"I", "T", "E", "M", "-", "1">>,
                                          !.currency = currency]>>))

\* lines 253-256 and 258-261: a field still empty takes the candidate at idx,
\* or the first candidate
CandidateFor(current, idx, candidates) ==
  IF idx < Len(candidates) /\ current = << >> THEN PyIndex(candidates, idx)
  ELSE IF candidates # << >> /\ current = << >> THEN PyIndex(candidates, 0)
  ELSE Returned(current)

\* lines 264-268
SplitCombinedName(pos, name_and_packing) ==
  IF pos.name_en # << >> /\ pos.packing_en = << >> /\ name_and_packing[2] # << >>
  THEN [pos EXCEPT !.name_en = name_and_packing[1], !.packing_en = name_and_packing[2]]
  ELSE pos

\* the body of the loop of lines 252-268
DescribePosition(pos, idx, name_candidates, packing_candidates) ==
  Then(CandidateFor(pos.name_en, idx, name_candidates), LAMBDA name_en :
    Then(CandidateFor(pos.packing_en, idx, packing_candidates), LAMBDA packing_en :
      Returned(SplitCombinedName([pos EXCEPT !.name_en = name_en,
                                             !.packing_en = packing_en],
                                 _split_name_and_packing(name_en)))))

\* a loop over calls: it raises when one of them raises
AllReturned(outcomes) ==
  Bind(outcomes, LAMBDA os :
    IF \E i \in 1..Len(os) : os[i].raised THEN Raised
    ELSE Returned([i \in 1..Len(os) |-> os[i].value]))

\* lines 273-278
ReplaceFirst(positions, first, fallback) ==
  IF fallback # None /\ fallback[1].unit_price # None /\ fallback[1].total_price # None
  THEN [positions EXCEPT ![1] =
          [fallback[1] EXCEPT
             !.name_en = IF @ = << >> /\ first.name_en # << >> THEN first.name_en ELSE @,
             !.packing_en =
                IF @ = << >> /\ first.packing_en # << >> THEN first.packing_en ELSE @]]
  ELSE positions

\* a variant of PreferGoodsBlock that computes the fallback for every first position
PreferGoodsBlock_Always(positions, block, currency) ==
  IF positions = << >> THEN Returned(positions)
  ELSE Then(PyIndex(positions, 0), LAMBDA first :
         Then(_extract_goods_block_position(block, currency), LAMBDA fallback :
           Returned(ReplaceFirst(positions, first, fallback))))

\* lines 271-278 of _extract_positions
PreferGoodsBlock(positions, block, currency) ==
  IF positions = << >> THEN Returned(positions)
  ELSE Then(PyIndex(positions, 0), LAMBDA first :
         IF first.unit_price = None \/ first.total_price = None
         THEN Then(_extract_goods_block_position(block, currency), LAMBDA fallback :
                Returned(ReplaceFirst(positions, first, fallback)))
         ELSE Returned(positions))

\* _extract_positions, over the rows row_pattern matched, the name and packing
\* candidates of the description lines, and the goods block
_extract_positions(found, currency) ==
  Then(RowsOrFallback(RowPositions(found.rows, currency), found.block, currency),
       LAMBDA positions :
    Then(AllReturned([i \in 1..Len(positions) |->
                        DescribePosition(positions[i], i - 1, found.name_candidates,
                                         found.packing_candidates)]),
         LAMBDA described : PreferGoodsBlock(described, found.block, currency)))

\* the searches of _extract_currency for a currency sign or word, in the order
\* of lines 24-29: the currency of the first that succeeds, << >> when none
\* does; the rupee and euro signs are written "rupee" and "euro"
CurrencyWord(text) ==
  LET HasWord(w) == \E p \in 1..Len(text) : WordAt(Lower(text), p, w)
  IN  IF Contains(text, <<"rupee">>) \/ HasWord(<<"i", "n", "r">>) THEN <<"I", "N", "R">>
      ELSE IF Contains(text, <<"$">>) \/ HasWord(<<"u", "s", "d">>) THEN <<"U", "S", "D">>
      ELSE IF Contains(text, <<"euro">>) \/ HasWord(<<"e", "u", "r">>) THEN <<"E", "U", "R">>
      ELSE << >>

\* \(In\s+([A-Z]{3})\) at p
InCurrencyAt(s, p) ==
  IF /\ HasAt(s, p, <<"(", "I", "n">>)
     /\ IsSpace(At(s, p + 3))
     /\ \A k \in 0..2 : IsUpper(At(s, SkipSpaces(s, p + 3) + k))
     /\ At(s, SkipSpaces(s, p + 3) + 3) = ")"
  THEN [ok |-> TRUE, g1 |-> SubSeq(s, SkipSpaces(s, p + 3), SkipSpaces(s, p + 3) + 2)]
  ELSE NoMatch

\* re.search(r"\(In\s+([A-Z]{3})\)", text)
CurrencyMatch(text) == FirstMatch(Len(text), LAMBDA p : InCurrencyAt(text, p))

\* the parts of a line between its spaces
RECURSIVE Tokens(_)
Tokens(line) ==
  IF \E i \in 1..Len(line) : line[i] = " "
  THEN LET i == SetMin({k \in 1..Len(line) : line[k] = " "})
       IN  <<SubSeq(line, 1, i - 1)>> \o Tokens(SubSeq(line, i + 1, Len(line)))
  ELSE <<line>>

\* [A-Za-z0-9\-/]{3,}
IsCodeToken(t) ==
  Len(t) >= 3 /\ \A i \in 1..Len(t) : IsAlnum(t[i]) \/ t[i] \in {"-", "/"}

\* \d+(?:[.,]\d+)?
IsQtyToken(t) ==
  /\ DigitRun(t, 1) >= 1
  /\ \/ DigitRun(t, 1) = Len(t)
     \/ /\ At(t, DigitRun(t, 1) + 1) \in {".", ","}
        /\ DigitRun(t, DigitRun(t, 1) + 2) >= 1
        /\ DigitRun(t, 1) + 1 + DigitRun(t, DigitRun(t, 1) + 2) = Len(t)

\* [\d,]+(?:\.\d{2})?
IsPriceToken(t) ==
  LET GroupedDigits(n) == n >= 1 /\ \A i \in 1..n : IsDigit(t[i]) \/ t[i] = ","
  IN  \/ GroupedDigits(Len(t))
      \/ /\ Len(t) >= 4
         /\ GroupedDigits(Len(t) - 3)
         /\ t[Len(t) - 2] = "."
         /\ IsDigit(t[Len(t) - 1]) /\ IsDigit(t[Len(t)])

\* row_pattern.match(normalized) (lines 189-191), on a line whose runs of white
\* space have been made one space: the four groups lie between the spaces
RowPatternMatch(normalized) ==
  IF /\ Len(Tokens(normalized)) = 4
     /\ IsCodeToken(Tokens(normalized)[1])
     /\ IsQtyToken(Tokens(normalized)[2])
     /\ IsPriceToken(Tokens(normalized)[3])
     /\ IsPriceToken(Tokens(normalized)[4])
  THEN [ok |-> TRUE, code |-> Tokens(normalized)[1], qty |-> Tokens(normalized)[2],
        unit |-> Tokens(normalized)[3], total |-> Tokens(normalized)[4]]
  ELSE NoMatch

\* lines 187 and 196-199: the rows row_pattern matches in the lines of pi_text
RowsOf(pi_text) ==
  LET matches == [i \in 1..Len(StrippedLines(pi_text)) |->
                    RowPatternMatch(CollapseSpaces(StrippedLines(pi_text)[i]))]
      rows == SelectSeq(matches, LAMBDA m : m.ok)
  IN  [i \in 1..Len(rows) |->
         [code |-> rows[i].code, qty |-> rows[i].qty, unit |-> rows[i].unit,
          total |-> rows[i].total]]

\* whether _find_goods_block_lines and _extract_description_lines find their
\* start line in pi_text
HasGoodsHeader(pi_text) ==
  \E i \in 1..Len(SplitLines(pi_text)) :
    Contains(Lower(SplitLines(pi_text)[i]), <<"d", "e", "s", "c", "r", "i", "p", "t", "i", "o", "n", " ", "o", "f", " ", "g", "o", "o", "d", "s">>)

\* lines 385-387 of parse_pi_text
BuyerLines(buyer_block) == SelectSeq(SplitLines(buyer_block), LAMBDA ln : Strip(ln) # << >>)

BuyerName(buyer_lines) ==
  IF buyer_lines # << >> THEN PyIndex(buyer_lines, 0) ELSE Returned(<< >>)

BuyerAddress(buyer_lines) ==
  IF Len(buyer_lines) > 1 THEN Strip(Join(<<"\n">>, Tail(buyer_lines))) ELSE << >>

\* parse_pi_text, over what its searches of pi_text found
parse_pi_text(found) ==
  Then(_extract_currency(found.currency_word, found.currency_match), LAMBDA currency :
   Then(_find_first(found.invoice_no), LAMBDA invoice_no :
    Then(_find_first(found.exporter_name), LAMBDA exporter_name :
     Then(BuyerName(BuyerLines(found.buyer_block)), LAMBDA buyer_name :
      Then(_extract_positions(found, currency), LAMBDA positions :
       Then(_extract_invoice_date(found.invoice_date[1], found.invoice_date[2]),
            LAMBDA invoice_date :
        Then(_find_first(found.specification_date), LAMBDA specification_date :
          Returned([ExtractedData EXCEPT
                      !.invoice_no = invoice_no,
                      !.invoice_date = invoice_date,
                      !.buyer_name = buyer_name,
                      !.buyer_address = BuyerAddress(BuyerLines(found.buyer_block)),
                      !.exporter_name = exporter_name,
                      !.exporter_address = found.exporter_address,
                      !.terms_of_delivery = found.terms_of_delivery,
                      !.specification_date = specification_date,
                      !.positions = positions,
                      !.currency = currency]))))))))

\* re.search(r"\b(CPT|FOB|CIF|EXW|DAP|DDP|FCA)\b", text, re.IGNORECASE)
IncotermSearch(text) ==
  Bind(Lower(text), LAMBDA low :
    FirstMatch(Len(text), LAMBDA p :
      IF \E w \in {<<"c", "p", "t">>, <<"f", "o", "b">>, <<"c", "i", "f">>, <<"e", "x", "w">>,
                   <<"d", "a", "p">>, <<"d", "d", "p">>, <<"f", "c", "a">>} : WordAt(low, p, w)
      THEN [ok |-> TRUE, g1 |-> SubSeq(text, p, p + 2)]
      ELSE NoMatch))

\* lines 312-324 of _normalize_terms
TermsResult(incoterm, low) ==
  Upper(incoterm)
    \o (IF \E p \in 1..Len(low) : WordAt(low, p, <<"a", "i", "r">>)
        THEN <<" ", "B", "Y", " ", "A", "I", "R">> ELSE << >>)
    \o (IF Contains(low, <<"m", "o", "s", "c", "o", "w">>)
        THEN <<" ", "M", "O", "S", "C", "O", "W">>
        ELSE IF Contains(low, <<"h", "y", "d", "e", "r", "a", "b", "a", "d">>)
             THEN <<" ", "H", "Y", "D", "E", "R", "A", "B", "A", "D">>
        ELSE << >>)

\* _normalize_terms once _clean_space has been applied
TermsOfClean(text) ==
  Then(_find_first(<<IncotermSearch(text)>>), LAMBDA incoterm :
    Returned(IF incoterm = << >> THEN text
             ELSE Bind(Lower(text), LAMBDA low : TermsResult(incoterm, low))))

_normalize_terms(value) ==
  IF value = << >> THEN Returned(<< >>) ELSE Bind(_clean_space(value), TermsOfClean)

\* lines 121-130 of _normalize_terms of doc_builder.py
DocBuilder_TermsResult(incoterm, low) ==
  Upper(incoterm)
    \o (IF \E p \in 1..Len(low) : WordAt(low, p, <<"a", "i", "r">>)
        THEN <<" ", "B", "Y", " ", "A", "I", "R">> ELSE << >>)
    \o (IF Contains(low, <<"m", "o", "s", "c", "o", "w">>)
        THEN <<" ", "M", "O", "S", "C", "O", "W">> ELSE << >>)

\* _normalize_terms of doc_builder.py, lines 111-130
DocBuilder_normalize_terms(value) ==
  Bind(DocBuilder_clean_space(value), LAMBDA text :
    IF text = << >> THEN << >>
    ELSE Bind(IncotermSearch(text), LAMBDA m :
           IF ~m.ok THEN text
           ELSE Bind(Lower(text), LAMBDA low : DocBuilder_TermsResult(m.g1, low))))

\* the TERMS_OF_DELIVERY entry of _build_context, line 207 of doc_builder.py
ContextTermsOfDelivery(data) == DocBuilder_normalize_terms(data.terms_of_delivery)

\* parse_specification_text, over what re.search returned for the patterns of
\* each field
parse_specification_text(found) ==
  Then(_find_first(found.terms_of_delivery), LAMBDA terms_raw :
   Then(_normalize_terms(terms_raw), LAMBDA terms_of_delivery :
    Then(_find_first(found.period_of_validity), LAMBDA period_of_validity :
     Then(_find_first(found.specification_date), LAMBDA specification_date :
      Then(_find_first(found.packing), LAMBDA packing :
        Returned([terms_of_delivery |-> terms_of_delivery,
                  period_of_validity |-> period_of_validity,
                  specification_date |-> specification_date,
                  packing |-> packing]))))))

(***************************************************************************)
(* pdf_reader.py                                                           *)
(***************************************************************************)
\* re.sub(r"\s{2,}", " ", s)
RECURSIVE CollapseSpaceRuns(_)
CollapseSpaceRuns(s) ==
  IF s = << >> THEN << >>
  ELSE IF IsSpace(s[1]) /\ Len(s) >= 2 /\ IsSpace(s[2])
       THEN <<" ">> \o CollapseSpaceRuns(SubSeq(s, SkipSpaces(s, 1), Len(s)))
       ELSE <<s[1]>> \o CollapseSpaceRuns(Tail(s))

_normalize_ocr_noise(text) ==
  CollapseSpaceRuns(Replace(Replace(text, <<"a_circ", "euro", "tm">>, <<"'">>),
                            <<"I", "N", "R", ")">>, <<"(", "I", "n", " ", "I", "N", "R", ")">>))

\* the number of consecutive upper-case letters from p on
RECURSIVE UpperRun(_, _)
UpperRun(s, p) ==
  IF p <= Len(s) /\ IsUpper(s[p]) THEN 1 + UpperRun(s, p + 1) ELSE 0

\* re.search(r"\b[A-Z]{2,}/[A-Z]/\d{2}-\d{2}/\d+\b", s)
HasInvoiceNumberShape(s) ==
  \E p \in 1..Len(s) :
    LET k == UpperRun(s, p)
        q == p + k
        n == DigitRun(s, q + 10)
    IN  /\ ~IsWordChar(At(s, p - 1))
        /\ k >= 2
        /\ At(s, q) = "/"
        /\ IsUpper(At(s, q + 1))
        /\ At(s, q + 2) = "/"
        /\ IsDigit(At(s, q + 3)) /\ IsDigit(At(s, q + 4))
        /\ At(s, q + 5) = "-"
        /\ IsDigit(At(s, q + 6)) /\ IsDigit(At(s, q + 7))
        /\ At(s, q + 8) = "/"
        /\ IsDigit(At(s, q + 9))
        /\ ~IsWordChar(At(s, q + 10 + n))

\* re.search(r"\d{1,3}(?:,\d{2,3})+(?:\.\d+)?", s)
HasGroupedNumber(s) ==
  \E p \in 1..Len(s) :
    /\ IsDigit(s[p])
    /\ At(s, p + 1) = ","
    /\ IsDigit(At(s, p + 2))
    /\ IsDigit(At(s, p + 3))

QualityKeywords ==
  { <<"i", "n", "v", "o", "i", "c", "e">>,
    <<"c", "o", "n", "s", "i", "g", "n", "e", "e">>,
    <<"d", "e", "s", "c", "r", "i", "p", "t", "i", "o", "n", " ", "o", "f", " ",
      "g", "o", "o", "d", "s">>,
    <<"q", "u", "a", "n", "t", "i", "t", "y">>,
    <<"t", "e", "r", "m", "s", " ", "o", "f", " ", "d", "e", "l", "i", "v", "e", "r", "y">>,
    <<"s", "p", "e", "c", "i", "f", "i", "c", "a", "t", "i", "o", "n">>,
    <<"s", "t", "o", "r", "a", "g", "e">>,
    <<"t", "e", "m", "p", "e", "r", "a", "t", "u", "r", "e">> }

_quality_score(text) ==
  LET cleaned == Strip(CollapseSpaces(text))
      lowered == Lower(cleaned)
  IN  IF text = << >> THEN 0
      ELSE Len(cleaned)
           + 80 * Cardinality({kw \in QualityKeywords : Contains(lowered, kw)})
           + (IF HasInvoiceNumberShape(cleaned) THEN 120 ELSE 0)
           + (IF HasGroupedNumber(cleaned) THEN 40 ELSE 0)

\* One call of pytesseract.image_to_string either raises TesseractError,
\* [raises |-> TRUE], or returns a text, [raises |-> FALSE, text |-> t].
\* _extract_text_ocr_page: first is the call with the resolved languages, retry
\* the call with "eng", made only when the first call raises and under no try.
_extract_text_ocr_page(first, retry) ==
  IF ~first.raises THEN [raises |-> FALSE, text |-> Strip(first.text)]
  ELSE IF ~retry.raises THEN [raises |-> FALSE, text |-> Strip(retry.text)]
  ELSE [raises |-> TRUE]

\* a variant of OcrAttempted that does not look at the engine's availability
OcrAttempted_IgnoreAvailability(native_text, force, prefer, min_chars, available) ==
  force \/ prefer \/ Len(native_text) < min_chars

\* should_ocr and tesseract_available (lines 106-107)
OcrAttempted(native_text, force, prefer, min_chars, available) ==
  (force \/ prefer \/ Len(native_text) < min_chars) /\ available

\* the test of line 117; ocr_score >= native_score * 0.8 in whole numbers
OcrSelected(force, prefer, ocr_score, native_score) ==
  \/ force
  \/ (prefer /\ 5 * ocr_score >= 4 * native_score)
  \/ ocr_score > native_score

\* a variant of MakeBundle that counts every page as an OCR page
MakeBundle_AllPagesOcrd(pages, sources, ocrd, available) ==
  [text |-> Strip(Join(<<"\n", "\n">>, pages)),
   meta |-> [tesseract_available |-> available,
             pages_total |-> Len(pages),
             pages_ocrd |-> Len(pages),
             per_page_source |-> sources]]

\* the TextBundle of lines 125-132
MakeBundle(pages, sources, ocrd, available) ==
  [text |-> Strip(Join(<<"\n", "\n">>, pages)),
   meta |-> [tesseract_available |-> available,
             pages_total |-> Len(pages),
             pages_ocrd |-> ocrd,
             per_page_source |-> sources]]

(***************************************************************************)
(* doc_builder.py: _group_positions_by_temperature.  The OrderedDict is a  *)
(* sequence of [key, positions] entries in insertion order.                *)
(***************************************************************************)
\* a variant of AddToGroup that puts a new key before the existing ones
AddToGroup_NewKeyFirst(grouped, temp, position) ==
  IF \E i \in 1..Len(grouped) : grouped[i].key = temp
  THEN [i \in 1..Len(grouped) |->
          IF grouped[i].key = temp
          THEN [grouped[i] EXCEPT !.positions = Append(@, position)]
          ELSE grouped[i]]
  ELSE <<[key |-> temp, positions |-> <<position>>]>> \o grouped

\* a variant of AddToGroup that puts a position first in the group of its key
AddToGroup_Prepend(grouped, temp, position) ==
  IF \E i \in 1..Len(grouped) : grouped[i].key = temp
  THEN [i \in 1..Len(grouped) |->
          IF grouped[i].key = temp
          THEN [grouped[i] EXCEPT !.positions = <<position>> \o @]
          ELSE grouped[i]]
  ELSE Append(grouped, [key |-> temp, positions |-> <<position>>])

\* lines 354-356: grouped[temp].append(position), a new key going last
AddToGroup(grouped, temp, position) ==
  IF \E i \in 1..Len(grouped) : grouped[i].key = temp
  THEN [i \in 1..Len(grouped) |->
          IF grouped[i].key = temp
          THEN [grouped[i] EXCEPT !.positions = Append(@, position)]
          ELSE grouped[i]]
  ELSE Append(grouped, [key |-> temp, positions |-> <<position>>])

\* lines 351-353: the key of a position
GroupTemperature(position, data) ==
  StrOr(StrOr(_normalize_temp(position.storage_temperature),
              _normalize_temp(data.storage_temperature)),
        DocBuilder_DEFAULT_STORAGE_TEMPERATURE_EN)

\* data.positions or [Position()]
PositionsOrBlank(data) == IF data.positions # << >> THEN data.positions ELSE <<Position>>

\* the loop of lines 350-356 over positions, from the entries made so far
RECURSIVE GroupLoop(_, _, _)
GroupLoop(positions, data, grouped) ==
  IF positions = << >> THEN grouped
  ELSE GroupLoop(Tail(positions), data,
                 AddToGroup(grouped, GroupTemperature(positions[1], data), positions[1]))

_group_positions_by_temperature(data) == GroupLoop(PositionsOrBlank(data), data, << >>)

(***************************************************************************)
(* doc_builder.py: the documents built from a record.  A document is held  *)
(* as what it was built from: its list of positions and its temperature.   *)
(***************************************************************************)
\* re.sub(r"[^A-Za-z0-9]+", "_", temp): a run of other characters becomes one "_"
SlugRuns(temp) ==
  SelectSeq([i \in 1..Len(temp) |->
               IF IsAlnum(temp[i]) THEN temp[i]
               ELSE IF i < Len(temp) /\ ~IsAlnum(temp[i + 1]) THEN ""
               ELSE "_"],
            LAMBDA c : c # "")

\* str.strip("_")
StripUnderscores(s) ==
  LET kept == {i \in 1..Len(s) : s[i] # "_"}
  IN  IF kept = {} THEN << >> ELSE SubSeq(s, SetMin(kept), SetMax(kept))

SLUG_CHARS == 60

\* a variant of _temperature_slug that cuts to 60 characters before it strips
_temperature_slug_CutThenStrip(temp) ==
  StrOr(StripUnderscores(
          SubSeq(SlugRuns(temp), 1,
                 IF Len(SlugRuns(temp)) < SLUG_CHARS THEN Len(SlugRuns(temp))
                 ELSE SLUG_CHARS)),
        S_ambient)

_temperature_slug(temp) ==
  StrOr(SubSeq(StripUnderscores(SlugRuns(temp)), 1,
               IF Len(StripUnderscores(SlugRuns(temp))) < SLUG_CHARS
               THEN Len(StripUnderscores(SlugRuns(temp))) ELSE SLUG_CHARS),
        S_ambient)

\* lines 289-291 of generate_price_list_doc: the positions and the temperature
\* handed to _build_context
generate_price_list_doc(data) ==
  [positions |-> PositionsOrBlank(data),
   temperature |->
     StrOr(StrOr(PositionsOrBlank(data)[1].storage_temperature, data.storage_temperature),
           DocBuilder_DEFAULT_STORAGE_TEMPERATURE_EN)]

\* line 384
LabelFilename(temperature, many) ==
  IF many THEN <<"L", "a", "b", "e", "l", "_">> \o _temperature_slug(temperature) \o <<".", "d", "o", "c", "x">>
  ELSE <<"L", "a", "b", "e", "l", ".", "d", "o", "c", "x">>

\* docs[filename] = label_bytes on an OrderedDict: a key already there keeps its place
OrderedDictSet(docs, filename, doc) ==
  IF \E i \in 1..Len(docs) : docs[i].filename = filename
  THEN [i \in 1..Len(docs) |->
          IF docs[i].filename = filename THEN [filename |-> filename, doc |-> doc]
          ELSE docs[i]]
  ELSE Append(docs, [filename |-> filename, doc |-> doc])

\* the loop of lines 372-385 over the groups, from the documents made so far
RECURSIVE LabelLoop(_, _, _)
LabelLoop(groups, many, docs) ==
  IF groups = << >> THEN docs
  ELSE LabelLoop(Tail(groups), many,
                 OrderedDictSet(docs, LabelFilename(groups[1].key, many),
                                [positions |-> groups[1].positions,
                                 temperature |-> groups[1].key]))

generate_label_docs_by_temperature(data) ==
  LabelLoop(_group_positions_by_temperature(data),
            Len(_group_positions_by_temperature(data)) > 1, << >>)

(***************************************************************************)
(* app.py: the review table.  A table is a sequence of rows, a row holds   *)
(* the ten columns of a Position, and a cell is the text str() gives for   *)
(* its value once fillna("") has made the missing values empty.           *)
(***************************************************************************)
RECURSIVE Pow10(_)
Pow10(e) == IF e = 0 THEN 1 ELSE 10 * Pow10(e - 1)

\* str(n) padded with zeros on the left to w digits
RECURSIVE ZeroPad(_, _)
ZeroPad(digits, w) == IF Len(digits) >= w THEN digits ELSE ZeroPad(<<"0">> \o digits, w)

\* str(v) of a float v, written without an exponent
PyStrFloat(v) ==
  LET mag == IF v.m < 0 THEN 0 - v.m ELSE v.m
  IN  (IF v.m < 0 THEN <<"-">> ELSE << >>)
        \o NatToStr(mag \div Pow10(v.e)) \o <<".">>
        \o (IF v.e = 0 THEN <<"0">> ELSE ZeroPad(NatToStr(mag % Pow10(v.e)), v.e))

\* the cell of an optional number
NumberCell(number) == IF number = None THEN << >> ELSE PyStrFloat(number[1])

\* asdict(p) as a row
RowOf(p) ==
  [p EXCEPT !.quantity = NumberCell(@), !.unit_price = NumberCell(@),
            !.total_price = NumberCell(@)]

\* a variant of _positions_to_df that gives an empty list no row
_positions_to_df_NoBlankRow(positions) == [i \in 1..Len(positions) |-> RowOf(positions[i])]

\* _positions_to_df
_positions_to_df(positions) ==
  IF positions # << >> THEN [i \in 1..Len(positions) |-> RowOf(positions[i])]
  ELSE <<RowOf(Position)>>

\* _to_float of _df_to_positions (lines 29-35), on a cell written without
\* exponent, underscore, inf or nan; float() skips the white space around a number
App_to_float(v) ==
  IF v = << >> THEN None
  ELSE IF PyFloat(Strip(Replace(v, <<",">>, << >>))).raised THEN None
  ELSE <<PyFloat(Strip(Replace(v, <<",">>, << >>))).value>>

\* lines 37-50: the Position of a row
PositionOfRow(row) ==
  [code |-> Strip(row.code), name_en |-> Strip(row.name_en),
   name_ru |-> Strip(row.name_ru), quantity |-> App_to_float(row.quantity),
   packing_en |-> Strip(row.packing_en), packing_ru |-> Strip(row.packing_ru),
   unit_price |-> App_to_float(row.unit_price),
   total_price |-> App_to_float(row.total_price),
   currency |-> Strip(row.currency),
   storage_temperature |-> Strip(row.storage_temperature)]

\* _df_to_positions
_df_to_positions(df) == [i \in 1..Len(df) |-> PositionOfRow(df[i])]

\* lines 239-245: the loop of the "Copy EN Name/Packing -> RU" button
CopyEnToRuPosition(position, default_temperature) ==
  [position EXCEPT
     !.name_ru = IF @ = << >> THEN position.name_en ELSE @,
     !.packing_ru = IF @ = << >> THEN position.packing_en ELSE @,
     !.storage_temperature = IF @ = << >> THEN default_temperature ELSE @]

\* _pack_outputs: the names of the files written to the archive
_pack_outputs(label_docs) ==
  <<<<"P", "r", "i", "c", "e", "_", "L", "i", "s", "t", ".", "d", "o", "c", "x">>>> \o [i \in 1..Len(label_docs) |-> label_docs[i].filename]

(***************************************************************************)
(* pipeline.py                                                             *)
(***************************************************************************)
\* the points _pi_parse_score gives for the first position
FirstPositionScore(first) ==
  (IF first.code # << >>
   THEN 2 + (IF Contains(first.code, <<" ">>) THEN -1 ELSE 0)
          + (IF \E prefix \in {<<"t", "i", "n">>, <<"m", "f", "g">>, <<"e", "x", "p">>} :
                  HasAt(Lower(first.code), 1, prefix)
             THEN -3 ELSE 0)
   ELSE 0)
  + (IF first.unit_price # None THEN 2 ELSE 0)
  + (IF first.total_price # None THEN 2 ELSE 0)
  + (IF first.name_en # << >> /\ Len(first.name_en) > 8 THEN 1 ELSE 0)

_pi_parse_score(data) ==
  (IF data.invoice_no # << >> THEN 3 ELSE 0)
  + (IF data.invoice_date # << >> THEN 2 ELSE 0)
  + (IF data.buyer_name # << >> THEN 1 ELSE 0)
  + (IF data.terms_of_delivery # << >> THEN 2 ELSE 0)
  + (IF data.positions # << >> THEN 2 + FirstPositionScore(data.positions[1]) ELSE 0)

\* a variant of OcrParseSelected in which a tie selects the OCR parse
OcrParseSelected_TieSelectsOcr(ocr_score, native_score) == ocr_score >= native_score

\* the test of line 62
OcrParseSelected(ocr_score, native_score) == ocr_score > native_score

PREVIEW_CHARS == 3000

\* a variant of TextPreview that keeps the whole text
TextPreview_Whole(text) == text

\* text[:3000]
TextPreview(text) ==
  SubSeq(text, 1, IF Len(text) < PREVIEW_CHARS THEN Len(text) ELSE PREVIEW_CHARS)

\* d[key] = value
DictSet(d, key, value) ==
  [k \in DOMAIN d \cup {key} |-> IF k = key THEN value ELSE d[k]]

\* the entry of lines 66, 79 and 85; asdict(meta) is the meta record
LogEntry(text_bundle) ==
  [meta |-> text_bundle.meta, text_preview |-> TextPreview(text_bundle.text)]

\* the entry of lines 68-74
PiLogEntry(source, native, ocr, text_bundle) ==
  [selected_source |-> source, native_score |-> native, ocr_score |-> ocr,
   meta |-> text_bundle.meta, text_preview |-> TextPreview(text_bundle.text)]

(***************************************************************************)
(* State.                                                                  *)
(*   t_arg, t_text, t_op, t_prev_op: the temperature functions applied to  *)
(*   a text: t_text is the current text, t_op the function that produced   *)
(*   it from t_arg, t_prev_op the function that had produced t_arg.        *)
(*   pi_in, pi_data, spec_data, msds_data, merge_pc: one call of           *)
(*   merge_extraction: pi_data is the record the call mutates in place,    *)
(*   pi_in the record as it was passed.                                    *)
(*   tesseract_available .. acq_pc: one call of extract_pdf_text: its      *)
(*   arguments, the host's OCR availability, the native page texts, the    *)
(*   locals of its loop, the TextBundle it returns, and the calls made to  *)
(*   the OCR engine for the latest page ([calls |-> n, raised |-> b]);     *)
(*   page_scores holds the native_score and ocr_score computed for the     *)
(*   latest page, << >> when OCR was not attempted for it.                 *)
(*   host_tesseract .. pipe_pc: one call of run_extraction_pipeline: the   *)
(*   host's OCR availability, the arguments (has_specification and         *)
(*   has_msds say whether the bytes were given), and the locals; the       *)
(*   locals pi_data, spec_data and msds_data are the variables of that     *)
(*   name, and pi_in is pi_data as it was passed to merge_extraction.      *)
(*   group_data, grouped, group_pc: one call of                            *)
(*   _group_positions_by_temperature: its argument and what it returned.   *)
(*   parse_fn .. parse_pc: one call of an extractor: the function, what    *)
(*   its searches found in the text, and the outcome of the call.          *)
(*   coerce_value, coerce_out, coerce_pc: one call of _to_float.           *)
(*   extracted .. outputs: the session of app.py after an extraction: the  *)
(*   record under review, the table of positions as edited, the step, the  *)
(*   number of changes made to the table, and the files generated.         *)
(***************************************************************************)
VARIABLES t_arg, t_text, t_op, t_prev_op,
          pi_in, pi_data, spec_data, msds_data, merge_pc,
          tesseract_available, force_ocr, prefer_ocr, min_native_chars,
          native_pages, output_pages, per_page_source, pages_ocrd,
          ocr_calls, page_scores, bundle, acq_pc,
          host_tesseract, force_ocr_pi, force_ocr_specification, force_ocr_msds,
          has_specification, has_msds,
          pi_text_native, pi_data_native, pi_text_ocr, pi_data_ocr,
          native_score, ocr_score, selected_source, pi_text, logs, pipe_pc,
          group_data, grouped, group_pc,
          parse_fn, parse_found, parse_out, parse_pc,
          coerce_value, coerce_out, coerce_pc,
          extracted, table, workflow_step, edits, outputs

tempVars == <<t_arg, t_text, t_op, t_prev_op>>

mergeVars == <<pi_in, pi_data, spec_data, msds_data, merge_pc>>

acqVars ==
  <<tesseract_available, force_ocr, prefer_ocr, min_native_chars, native_pages,
    output_pages, per_page_source, pages_ocrd, ocr_calls, page_scores, bundle,
    acq_pc>>

pipeVars ==
  <<host_tesseract, force_ocr_pi, force_ocr_specification, force_ocr_msds,
    has_specification, has_msds, pi_text_native,
    pi_data_native, pi_text_ocr, pi_data_ocr, native_score, ocr_score,
    selected_source, pi_text, logs, pipe_pc>>

groupVars == <<group_data, grouped, group_pc>>

parseVars == <<parse_fn, parse_found, parse_out, parse_pc>>

coerceVars == <<coerce_value, coerce_out, coerce_pc>>

reviewVars == <<extracted, table, workflow_step, edits, outputs>>

vars ==
  <<tempVars, mergeVars, acqVars, pipeVars, groupVars, parseVars, coerceVars, reviewVars>>

CoerceIdle ==
  /\ coerce_value = << >>
  /\ coerce_out = None
  /\ coerce_pc = "idle"

ReviewIdle ==
  /\ extracted = ExtractedData
  /\ table = << >>
  /\ workflow_step = 0
  /\ edits = 0
  /\ outputs = [generated |-> FALSE]

ParseIdle ==
  /\ parse_fn = "none"
  /\ parse_found = << >>
  /\ parse_out = Returned(<< >>)
  /\ parse_pc = "idle"

TempIdle ==
  /\ t_arg = << >>
  /\ t_text = << >>
  /\ t_op = "idle"
  /\ t_prev_op = "idle"

NoBundle == [text |-> << >>,
             meta |-> [tesseract_available |-> FALSE, pages_total |-> 0,
                       pages_ocrd |-> 0, per_page_source |-> << >>]]

AcqIdle ==
  /\ tesseract_available = FALSE
  /\ force_ocr = FALSE
  /\ prefer_ocr = FALSE
  /\ min_native_chars = 0
  /\ native_pages = << >>
  /\ output_pages = << >>
  /\ per_page_source = << >>
  /\ pages_ocrd = 0
  /\ ocr_calls = [calls |-> 0, raised |-> FALSE]
  /\ page_scores = << >>
  /\ bundle = NoBundle
  /\ acq_pc = "idle"

PipeIdle ==
  /\ host_tesseract = FALSE
  /\ force_ocr_pi = FALSE
  /\ force_ocr_specification = FALSE
  /\ force_ocr_msds = FALSE
  /\ has_specification = FALSE
  /\ has_msds = FALSE
  /\ pi_text_native = NoBundle
  /\ pi_data_native = ExtractedData
  /\ pi_text_ocr = NoBundle
  /\ pi_data_ocr = ExtractedData
  /\ native_score = 0
  /\ ocr_score = None
  /\ selected_source = "native"
  /\ pi_text = NoBundle
  /\ logs = EmptyDict
  /\ pipe_pc = "idle"

GroupIdle ==
  /\ group_data = ExtractedData
  /\ grouped = << >>
  /\ group_pc = "idle"

MergeIdle ==
  /\ pi_in = ExtractedData
  /\ pi_data = ExtractedData
  /\ spec_data = [none |-> TRUE]
  /\ msds_data = [none |-> TRUE]
  /\ merge_pc = "idle"

(***************************************************************************)
(* The temperature texts the functions are applied to: lines made of an    *)
(* optional lead-in, a range in one of the ways a range is written, and an *)
(* optional tail; and texts of two such lines.                             *)
(***************************************************************************)
TempLeads ==
  { << >>,
    <<"S", "t", "o", "r", "e", " ", "a", "t", " ">>,
    <<"b", "e", "t", "w", "e", "e", "n", " ">> }

TempRanges ==
  { << >>,
    <<"2", "C", " ", "t", "o", " ", "8", "C">>,
    <<"2", " ", "t", "o", " ", "8", " ", "C">>,
    <<"2", "-", "8", "deg", "C">>,
    <<"+", "1", "5", "C", " ", "t", "o", " ", "+", "2", "5", "C">>,
    <<"-", "2", "0", "deg", "C", " ", "a", "n", "d", " ", "-", "5", "deg", "C">>,
    <<"0", "2", "c", "ndash", "1", "0", "8", "C">>,
    <<"1", "2", "3", "C", "-", "-", "5", " ", "C">>,
    <<"f", "r", "o", "z", "e", "n">> }

TempTails ==
  { << >>,
    <<" ", "a", "m", "b", "i", "e", "n", "t">>,
    <<" ", "R", "o", "o", "m", " ", "T", "e", "m", "p", "e", "r", "a", "t", "u", "r", "e">>,
    <<" ", " ">> }

TempSecondLines ==
  { <<"K", "e", "e", "p", " ", "2", "C", " ", "t", "o", " ", "8", "C">>,
    <<"a", "m", "b", "i", "e", "n", "t">>,
    <<"a", "t", " ", "5", "F", "~", "9", "F">> }

\* one line (lead, range, tail), or such a line and a second line
TempTexts ==
  {lead \o range \o tail \o second :
     lead \in TempLeads, range \in TempRanges, tail \in TempTails,
     second \in {<< >>} \cup {<<"\n">> \o line : line \in TempSecondLines}}

TempInit ==
  /\ t_arg = << >>
  /\ t_text \in TempTexts
  /\ t_op = "input"
  /\ t_prev_op = "input"

ApplyNormalizeTemp ==
  /\ t_arg' = t_text
  /\ t_text' = _normalize_temp(t_text)
  /\ t_prev_op' = t_op
  /\ t_op' = "_normalize_temp"

ApplyNormalizeStorageTemperature ==
  /\ t_arg' = t_text
  /\ t_text' = _normalize_storage_temperature(t_text)
  /\ t_prev_op' = t_op
  /\ t_op' = "_normalize_storage_temperature"

ApplyParseMsdsText ==
  /\ t_op = "input"
  /\ t_arg' = t_text
  /\ t_text' = parse_msds_text(t_text).storage_temperature
  /\ t_prev_op' = t_op
  /\ t_op' = "parse_msds_text"

TempNext ==
  \/ ApplyNormalizeTemp /\ UNCHANGED <<mergeVars, acqVars, pipeVars, groupVars, parseVars,
                                       coerceVars, reviewVars>>
  \/ ApplyNormalizeStorageTemperature
       /\ UNCHANGED <<mergeVars, acqVars, pipeVars, groupVars, parseVars, coerceVars, reviewVars>>
  \/ ApplyParseMsdsText /\ UNCHANGED <<mergeVars, acqVars, pipeVars, groupVars, parseVars,
                                       coerceVars, reviewVars>>

InitTemp == TempInit /\ MergeIdle /\ AcqIdle /\ PipeIdle /\ GroupIdle /\ ParseIdle
  /\ CoerceIdle /\ ReviewIdle

SpecTemp == InitTemp /\ [][TempNext]_vars

(***************************************************************************)
(* merge_extraction, called on the records and overlays a caller can pass. *)
(***************************************************************************)
S_FOB == <<"F", "O", "B">>

S_CIF_MOSCOW == <<"C", "I", "F", " ", "M", "O", "S", "C", "O", "W">>

S_USD == <<"U", "S", "D">>

S_EUR == <<"E", "U", "R">>

S_30_days == <<"3", "0", " ", "d", "a", "y", "s">>

S_60_days == <<"6", "0", " ", "d", "a", "y", "s">>

S_date_pi == <<"0", "1", ".", "0", "2", ".", "2", "0", "2", "4">>

S_date_spec == <<"1", "5", ".", "0", "3", ".", "2", "0", "2", "4">>

S_2C_to_8C == <<"2", "C", " ", "t", "o", " ", "8", "C">>

S_p2C_to_p8C == <<"+", "2", "C", " ", "t", "o", " ", "+", "8", "C">>

S_m20C_to_m5C == <<"-", "2", "0", "C", " ", "t", "o", " ", "-", "5", "C">>

S_10_vials == <<"1", "0", " ", "v", "i", "a", "l", "s">>

S_5_ampoules == <<"5", " ", "a", "m", "p", "o", "u", "l", "e", "s">>

S_invoice_no == <<"A", "B", "/", "P", "I", "/", "2", "4", "-", "2", "5", "/", "7">>

S_buyer == <<"O", "O", "O", " ", "B", "u", "y", "e", "r">>

S_code == <<"A", "B", "C", "-", "1", "2", "3">>

S_name == <<"A", "m", "o", "x", "i", "c", "i", "l", "l", "i", "n">>

\* the Position records of the model: a strict-row position whose currency,
\* storage temperature and packing are each empty or set
MergePositions ==
  {[Position EXCEPT !.code = S_code, !.name_en = S_name, !.quantity = <<100>>,
                    !.name_ru = <<"cyr_sha", "cyr_te">>, !.packing_ru = <<"1", " ", "cyr_sha", "cyr_te">>,
                    !.unit_price = <<25>>, !.total_price = <<2500>>,
                    !.currency = c, !.storage_temperature = t, !.packing_en = p] :
     c \in {<< >>, S_USD}, t \in {<< >>, S_m20C_to_m5C}, p \in {<< >>, S_10_vials}}

\* the sequences over S of length at most n
RECURSIVE SeqsUpTo(_, _)
SeqsUpTo(S, n) ==
  IF n = 0 THEN {<< >>}
  ELSE LET shorter == SeqsUpTo(S, n - 1)
       IN  shorter \cup {Append(q, x) : q \in {r \in shorter : Len(r) = n - 1}, x \in S}

\* the i-th position of a record, told apart by its code
NumberedPositions(positions) ==
  [i \in 1..Len(positions) |-> [positions[i] EXCEPT !.code = @ \o <<"/">> \o NatToStr(i)]]

\* the records passed as pi_data: each of terms, storage temperature and
\* currency empty or set; validity period and specification date both empty
\* or both set
MergeRecords ==
  {[ExtractedData EXCEPT
      !.invoice_no = S_invoice_no, !.buyer_name = S_buyer,
      !.invoice_date = S_date_pi, !.buyer_address = S_CIF_MOSCOW,
      !.exporter_name = S_name, !.exporter_name_ru = <<"cyr_te">>,
      !.exporter_address = S_buyer,
      !.terms_of_delivery = terms, !.period_of_validity = dates[1],
      !.specification_date = dates[2], !.storage_temperature = temp,
      !.currency = cur, !.positions = NumberedPositions(positions)] :
     terms \in {<< >>, S_FOB},
     dates \in {<<(<< >>), (<< >>)>>, <<S_30_days, S_date_pi>>},
     temp \in {<< >>, S_2C_to_8C},
     cur \in {<< >>, S_EUR}, positions \in SeqsUpTo(MergePositions, MaxPositions)}

\* the dicts a caller passes: every key of vals present, each empty or holding
\* its value of vals; one key absent and the others holding their values; no keys
DictsOver(vals) ==
  [DOMAIN vals -> {0, 1}]
    \cup {[k \in DOMAIN vals \ {x} |-> 1] : x \in DOMAIN vals}
    \cup {[k \in {} |-> 1]}

DictOf(vals, choice) ==
  [k \in DOMAIN choice |-> IF choice[k] = 1 THEN vals[k] ELSE << >>]

OptionalDicts(vals) ==
  {[none |-> TRUE]} \cup
  {[none |-> FALSE, items |-> DictOf(vals, c)] : c \in DictsOver(vals)}

SpecOverlayValues ==
  [terms_of_delivery |-> S_CIF_MOSCOW, period_of_validity |-> S_60_days,
   specification_date |-> S_date_spec, packing |-> S_5_ampoules]

MsdsOverlayValues == [storage_temperature |-> S_p2C_to_p8C]

MergeInit ==
  /\ pi_in \in MergeRecords
  /\ pi_data = pi_in
  /\ spec_data \in OptionalDicts(SpecOverlayValues)
  /\ msds_data \in OptionalDicts(MsdsOverlayValues)
  /\ merge_pc = "start"

Merge ==
  /\ merge_pc = "start"
  /\ pi_data' = merge_extraction(pi_data, spec_data, msds_data)
  /\ merge_pc' = "done"
  /\ UNCHANGED <<pi_in, spec_data, msds_data>>

MergeNext == Merge /\ UNCHANGED <<tempVars, acqVars, pipeVars, groupVars, parseVars,
                                  coerceVars, reviewVars>>

InitMerge == MergeInit /\ TempIdle /\ AcqIdle /\ PipeIdle /\ GroupIdle /\ ParseIdle
  /\ CoerceIdle /\ ReviewIdle

SpecMerge == InitMerge /\ [][MergeNext]_vars

(***************************************************************************)
(* extract_pdf_text, one action per iteration of its loop over the pages.  *)
(***************************************************************************)
DEFAULT_MIN_NATIVE_CHARS == 60

SmallMinNativeChars == 7

\* what _extract_text_native returns for a page: stripped text
NativeTexts ==
  { << >>,
    <<"Q", "t", "y", " ", "5", "0">>,
    <<"I", "n", "v", "o", "i", "c", "e", " ", "A", "B", "/", "C", "/", "2", "4",
      "-", "2", "5", "/", "7">> }

\* what the OCR engine returns for a page
OcrRawTexts ==
  { <<"Q", "t", "y", " ", "5">>,
    <<"Q", "t", "y", " ", " ", "5", "0">>,
    <<" ", "I", "n", "v", "o", "i", "c", "e", " ", " ", "A", "B", "/", "C", "/",
      "2", "4", "-", "2", "5", "/", "7", " ", "I", "N", "R", ")", "\n">> }

EngineResults ==
  {[raises |-> TRUE]} \cup {[raises |-> FALSE, text |-> t] : t \in OcrRawTexts}

\* the sequences over S of length 1..n
NonEmptySeqsUpTo(S, n) == SeqsUpTo(S, n) \ {<< >>}

AcqInit ==
  /\ tesseract_available \in BOOLEAN
  /\ force_ocr \in BOOLEAN
  /\ prefer_ocr \in BOOLEAN
  /\ min_native_chars \in {DEFAULT_MIN_NATIVE_CHARS, SmallMinNativeChars}
  /\ native_pages \in NonEmptySeqsUpTo(NativeTexts, MaxPages)
  /\ output_pages = << >>
  /\ per_page_source = << >>
  /\ pages_ocrd = 0
  /\ ocr_calls = [calls |-> 0, raised |-> FALSE]
  /\ page_scores = << >>
  /\ bundle = NoBundle
  /\ acq_pc = "loop"

\* the page the loop is at
idx == Len(output_pages) + 1

AcqFrame == UNCHANGED <<tesseract_available, force_ocr, prefer_ocr,
                        min_native_chars, native_pages>>

\* lines 107-110: OCR is not attempted
PageNative ==
  /\ acq_pc = "loop"
  /\ idx <= Len(native_pages)
  /\ ~OcrAttempted(native_pages[idx], force_ocr, prefer_ocr, min_native_chars,
                   tesseract_available)
  /\ output_pages' = Append(output_pages, native_pages[idx])
  /\ per_page_source' = Append(per_page_source, "native")
  /\ ocr_calls' = [calls |-> 0, raised |-> FALSE]
  /\ page_scores' = << >>
  /\ UNCHANGED <<pages_ocrd, bundle, acq_pc>>
  /\ AcqFrame

\* lines 112-123 with the OCR text that _extract_text_ocr_page returned
PageCompare(calls, page_text) ==
  LET native_text == native_pages[idx]
      ocr_text == _normalize_ocr_noise(page_text)
      page_native_score == _quality_score(native_text)
      page_ocr_score == _quality_score(ocr_text)
      ocr == OcrSelected(force_ocr, prefer_ocr, page_ocr_score, page_native_score)
  IN  /\ output_pages' = Append(output_pages, IF ocr THEN ocr_text ELSE native_text)
      /\ per_page_source' = Append(per_page_source, IF ocr THEN "ocr" ELSE "native")
      /\ pages_ocrd' = IF ocr THEN pages_ocrd + 1 ELSE pages_ocrd
      /\ ocr_calls' = [calls |-> calls, raised |-> FALSE]
      /\ page_scores' = <<[native_score |-> page_native_score, ocr_score |-> page_ocr_score]>>
      /\ UNCHANGED <<bundle, acq_pc>>
      /\ AcqFrame

\* OCR is attempted and the first call of the engine returns
PageOcr ==
  /\ acq_pc = "loop"
  /\ idx <= Len(native_pages)
  /\ OcrAttempted(native_pages[idx], force_ocr, prefer_ocr, min_native_chars,
                  tesseract_available)
  /\ \E first \in EngineResults :
       /\ ~first.raises
       /\ PageCompare(1, _extract_text_ocr_page(first, first).text)

\* OCR is attempted, the first call raises TesseractError and the retry returns
PageOcrRetry ==
  /\ acq_pc = "loop"
  /\ idx <= Len(native_pages)
  /\ OcrAttempted(native_pages[idx], force_ocr, prefer_ocr, min_native_chars,
                  tesseract_available)
  /\ \E retry \in EngineResults :
       /\ ~retry.raises
       /\ PageCompare(2, _extract_text_ocr_page([raises |-> TRUE], retry).text)

\* OCR is attempted and both calls raise: the exception leaves
\* _extract_text_ocr_page and, no handler being in the loop, extract_pdf_text
PageOcrRaises ==
  /\ acq_pc = "loop"
  /\ idx <= Len(native_pages)
  /\ OcrAttempted(native_pages[idx], force_ocr, prefer_ocr, min_native_chars,
                  tesseract_available)
  /\ _extract_text_ocr_page([raises |-> TRUE], [raises |-> TRUE]).raises
  /\ ocr_calls' = [calls |-> 2, raised |-> TRUE]
  /\ page_scores' = << >>
  /\ acq_pc' = "raised"
  /\ UNCHANGED <<output_pages, per_page_source, pages_ocrd, bundle>>
  /\ AcqFrame

\* lines 125-132
AcqReturn ==
  /\ acq_pc = "loop"
  /\ idx > Len(native_pages)
  /\ bundle' = MakeBundle(output_pages, per_page_source, pages_ocrd, tesseract_available)
  /\ acq_pc' = "done"
  /\ UNCHANGED <<output_pages, per_page_source, pages_ocrd, ocr_calls, page_scores>>
  /\ AcqFrame

AcqNext ==
  \/ PageNative /\ UNCHANGED <<tempVars, mergeVars, pipeVars, groupVars, parseVars,
                               coerceVars, reviewVars>>
  \/ PageOcr /\ UNCHANGED <<tempVars, mergeVars, pipeVars, groupVars, parseVars,
                            coerceVars, reviewVars>>
  \/ PageOcrRetry /\ UNCHANGED <<tempVars, mergeVars, pipeVars, groupVars, parseVars,
                                 coerceVars, reviewVars>>
  \/ PageOcrRaises /\ UNCHANGED <<tempVars, mergeVars, pipeVars, groupVars, parseVars,
                                  coerceVars, reviewVars>>
  \/ AcqReturn /\ UNCHANGED <<tempVars, mergeVars, pipeVars, groupVars, parseVars,
                              coerceVars, reviewVars>>

InitAcq == AcqInit /\ TempIdle /\ MergeIdle /\ PipeIdle /\ GroupIdle /\ ParseIdle
  /\ CoerceIdle /\ ReviewIdle

SpecAcq == InitAcq /\ [][AcqNext]_vars

(***************************************************************************)
(* run_extraction_pipeline, one action per document pass.  What            *)
(* extract_pdf_text and the PI and Specification extractors return for a   *)
(* document is drawn from the results they can return; parse_msds_text is  *)
(* applied to the MSDS text.                                               *)
(***************************************************************************)
S_pi_native_text == <<"P", "I", " ", "n", "a", "t", "i", "v", "e">>

S_pi_ocr_text == <<"P", "I", " ", "o", "c", "r">>

S_spec_text == <<"S", "p", "e", "c">>

\* the OCR text of a Specification page: five characters more than a preview holds
S_spec_ocr_text == [i \in 1..(PREVIEW_CHARS + 5) |-> IF i <= PREVIEW_CHARS THEN "x" ELSE "y"]

S_ITEM_1 == <<"I", "T", "E", "M", "-", "1">>

S_MFG_24 == <<"M", "F", "G", "-", "2", "4">>

S_short_name == <<"A", "m", "o", "x", "i", "l">>

\* the source of a page: native without the OCR engine, "ocr" under force_ocr,
\* else whichever lines 106-123 pick
PageSources(force, available) ==
  IF ~available THEN {"native"} ELSE IF force THEN {"ocr"} ELSE {"native", "ocr"}

\* the text bundle of a one-page document whose page came from source
OnePageBundle(text, source, available) ==
  MakeBundle(<<text>>, <<source>>, IF source = "ocr" THEN 1 ELSE 0, available)

\* what extract_pdf_text can return for a one-page document with this native
\* text and this OCR text
ExtractedBundles(native_text, ocr_text, force, available) ==
  {OnePageBundle(IF source = "ocr" THEN ocr_text ELSE native_text, source, available) :
     source \in PageSources(force, available)}

\* records parse_pi_text returns: it always returns at least one position,
\* with a code, and a position's currency is the document's
PiParses ==
  {[ExtractedData EXCEPT
      !.invoice_no = h1[1], !.invoice_date = h1[2],
      !.buyer_name = h2[1], !.terms_of_delivery = h2[2],
      !.currency = S_USD,
      !.positions = <<[Position EXCEPT
                         !.code = code, !.name_en = name, !.quantity = <<100>>,
                         !.unit_price = h2[3], !.total_price = h2[4],
                         !.currency = S_USD]>>] :
     h1 \in {<<(<< >>), (<< >>)>>, <<S_invoice_no, S_date_pi>>},
     h2 \in {<<(<< >>), (<< >>), None, None>>, <<S_buyer, S_FOB, (<<25>>), (<<2500>>)>>},
     code \in {S_ITEM_1, S_MFG_24},
     name \in {S_short_name, S_name}}

\* dicts parse_specification_text returns: the four keys, each value empty or found
SpecParses ==
  {[terms_of_delivery |-> << >>, period_of_validity |-> << >>,
    specification_date |-> << >>, packing |-> << >>],
   [terms_of_delivery |-> S_CIF_MOSCOW, period_of_validity |-> S_60_days,
    specification_date |-> S_date_spec, packing |-> S_5_ampoules]}

MsdsTexts ==
  { <<"S", "t", "o", "r", "e", " ", "a", "t", " ", "2", "C", " ", "t", "o", " ", "8", "C">>,
    <<"N", "o", " ", "d", "a", "t", "a">> }

\* what extract_pdf_text can return for the PI and for the Specification, by
\* force_ocr and the host's OCR availability
PiBundles ==
  [force \in BOOLEAN |-> [available \in BOOLEAN |->
     ExtractedBundles(S_pi_native_text, S_pi_ocr_text, force, available)]]

SpecificationBundles ==
  [force \in BOOLEAN |-> [available \in BOOLEAN |->
     ExtractedBundles(S_spec_text, S_spec_ocr_text, force, available)]]

\* what parse_msds_text returns for each MSDS text
MsdsParses == [text \in MsdsTexts |-> parse_msds_text(text)]

\* what extract_pdf_text can return for an MSDS of the given text
MsdsBundles ==
  [text \in MsdsTexts |-> [force \in BOOLEAN |-> [available \in BOOLEAN |->
     ExtractedBundles(text, text, force, available)]]]

PipeInit ==
  /\ host_tesseract \in BOOLEAN
  /\ force_ocr_pi \in BOOLEAN
  /\ force_ocr_specification \in BOOLEAN
  /\ force_ocr_msds \in BOOLEAN
  /\ has_specification \in BOOLEAN
  /\ has_msds \in BOOLEAN
  /\ pi_text_native = NoBundle
  /\ pi_data_native = ExtractedData
  /\ pi_text_ocr = NoBundle
  /\ pi_data_ocr = ExtractedData
  /\ native_score = 0
  /\ ocr_score = None
  /\ selected_source = "native"
  /\ pi_text = NoBundle
  /\ logs = EmptyDict
  /\ pipe_pc = "native_pass"
  /\ pi_in = ExtractedData
  /\ pi_data = ExtractedData
  /\ spec_data = [none |-> FALSE, items |-> EmptyDict]
  /\ msds_data = [none |-> FALSE, items |-> EmptyDict]
  /\ merge_pc = "idle"

PipeArgs ==
  <<host_tesseract, force_ocr_pi, force_ocr_specification, force_ocr_msds,
    has_specification, has_msds>>

\* lines 49-56: the native-first pass over the PI
NativePass ==
  /\ pipe_pc = "native_pass"
  /\ \E text_bundle \in PiBundles[FALSE][host_tesseract], parsed \in PiParses :
       /\ pi_text_native' = text_bundle
       /\ pi_data_native' = parsed
       /\ native_score' = _pi_parse_score(parsed)
       /\ pi_data' = parsed
       /\ pi_text' = text_bundle
  /\ selected_source' = "native"
  /\ ocr_score' = None
  /\ pipe_pc' = IF force_ocr_pi THEN "ocr_pass" ELSE "log_pi"
  /\ UNCHANGED <<PipeArgs, pi_text_ocr, pi_data_ocr, logs,
                 pi_in, spec_data, msds_data, merge_pc>>

\* what parse_pi_text can return for text, having returned native_parse for native_text
PiParsesOf(text, native_text, native_parse) ==
  IF text = native_text THEN {native_parse} ELSE PiParses

\* lines 58-66: the forced-OCR pass over the PI
OcrPass ==
  /\ pipe_pc = "ocr_pass"
  /\ \E text_bundle \in PiBundles[TRUE][host_tesseract] :
       \E parsed \in PiParsesOf(text_bundle.text, pi_text_native.text, pi_data_native) :
         LET score == _pi_parse_score(parsed)
             selected == OcrParseSelected(score, native_score)
         IN  /\ pi_text_ocr' = text_bundle
             /\ pi_data_ocr' = parsed
             /\ ocr_score' = <<score>>
             /\ pi_data' = IF selected THEN parsed ELSE pi_data
             /\ pi_text' = IF selected THEN text_bundle ELSE pi_text
             /\ selected_source' = IF selected THEN "ocr" ELSE selected_source
             /\ logs' = DictSet(logs, "pi_ocr_candidate", LogEntry(text_bundle))
  /\ pipe_pc' = "log_pi"
  /\ UNCHANGED <<PipeArgs, pi_text_native, pi_data_native, native_score,
                 pi_in, spec_data, msds_data, merge_pc>>

\* lines 68-74
LogPi ==
  /\ pipe_pc = "log_pi"
  /\ logs' = DictSet(logs, "pi", PiLogEntry(selected_source, native_score, ocr_score, pi_text))
  /\ pipe_pc' = "specification"
  /\ UNCHANGED <<PipeArgs, pi_text_native, pi_data_native, pi_text_ocr, pi_data_ocr,
                 native_score, ocr_score, selected_source, pi_text, mergeVars>>

\* lines 76-80
ReadSpecification ==
  /\ pipe_pc = "specification"
  /\ IF has_specification
     THEN \E spec_text \in SpecificationBundles[force_ocr_specification][host_tesseract],
             parsed \in SpecParses :
            /\ logs' = DictSet(logs, "specification", LogEntry(spec_text))
            /\ spec_data' = [none |-> FALSE, items |-> parsed]
     ELSE UNCHANGED <<logs, spec_data>>
  /\ pipe_pc' = "msds"
  /\ UNCHANGED <<PipeArgs, pi_text_native, pi_data_native, pi_text_ocr, pi_data_ocr,
                 native_score, ocr_score, selected_source, pi_text,
                 pi_in, pi_data, msds_data, merge_pc>>

\* lines 82-86
ReadMsds ==
  /\ pipe_pc = "msds"
  /\ IF has_msds
     THEN \E text \in MsdsTexts :
            \E msds_text \in MsdsBundles[text][force_ocr_msds][host_tesseract] :
              /\ logs' = DictSet(logs, "msds", LogEntry(msds_text))
              /\ msds_data' = [none |-> FALSE, items |-> MsdsParses[msds_text.text]]
     ELSE UNCHANGED <<logs, msds_data>>
  /\ pipe_pc' = "merge"
  /\ UNCHANGED <<PipeArgs, pi_text_native, pi_data_native, pi_text_ocr, pi_data_ocr,
                 native_score, ocr_score, selected_source, pi_text,
                 pi_in, pi_data, spec_data, merge_pc>>

\* lines 88-94
MergeAndReturn ==
  /\ pipe_pc = "merge"
  /\ pi_in' = pi_data
  /\ pi_data' = [merge_extraction(pi_data, spec_data, msds_data) EXCEPT
                   !.raw = [spec_data |-> spec_data.items, msds_data |-> msds_data.items]]
  /\ merge_pc' = "done"
  /\ pipe_pc' = "done"
  /\ UNCHANGED <<PipeArgs, pi_text_native, pi_data_native, pi_text_ocr, pi_data_ocr,
                 native_score, ocr_score, selected_source, pi_text, logs,
                 spec_data, msds_data>>

\* an exception leaving a call of extract_pdf_text (PageOcrRaises) leaves
\* run_extraction_pipeline, which has no handler
PipeRaises ==
  /\ pipe_pc \in {"native_pass", "ocr_pass"}
      \/ (pipe_pc = "specification" /\ has_specification)
      \/ (pipe_pc = "msds" /\ has_msds)
  /\ host_tesseract
  /\ pipe_pc' = "raised"
  /\ UNCHANGED <<PipeArgs, pi_text_native, pi_data_native, pi_text_ocr, pi_data_ocr,
                 native_score, ocr_score, selected_source, pi_text, logs, mergeVars>>

PipeNext ==
  \/ NativePass /\ UNCHANGED <<tempVars, acqVars, groupVars, parseVars, coerceVars, reviewVars>>
  \/ OcrPass /\ UNCHANGED <<tempVars, acqVars, groupVars, parseVars, coerceVars, reviewVars>>
  \/ LogPi /\ UNCHANGED <<tempVars, acqVars, groupVars, parseVars, coerceVars, reviewVars>>
  \/ ReadSpecification /\ UNCHANGED <<tempVars, acqVars, groupVars, parseVars, coerceVars,
                                      reviewVars>>
  \/ ReadMsds /\ UNCHANGED <<tempVars, acqVars, groupVars, parseVars, coerceVars, reviewVars>>
  \/ MergeAndReturn /\ UNCHANGED <<tempVars, acqVars, groupVars, parseVars, coerceVars, reviewVars>>
  \/ PipeRaises /\ UNCHANGED <<tempVars, acqVars, groupVars, parseVars, coerceVars, reviewVars>>

InitPipe == PipeInit /\ TempIdle /\ AcqIdle /\ GroupIdle /\ ParseIdle
  /\ CoerceIdle /\ ReviewIdle

SpecPipe == InitPipe /\ [][PipeNext]_vars

(***************************************************************************)
(* _group_positions_by_temperature applied to a record.                    *)
(***************************************************************************)
S_m20C == <<"-", "2", "0", "C">>

\* storage temperatures of a position: none, a range, ambient, free text, room
\* temperature, the default merge_extraction fills in
GroupTemperatures ==
  {<< >>, S_2C_to_8C, S_ambient, S_m20C, S_room_temperature, DEFAULT_STORAGE_TEMPERATURE_EN}

\* the i-th position of a record, told apart by its code
GroupPosition(i, temp) ==
  [Position EXCEPT !.code = <<"P">> \o NatToStr(i), !.storage_temperature = temp]

GroupRecords ==
  {[ExtractedData EXCEPT
      !.storage_temperature = doc_temp,
      !.positions = [i \in 1..Len(temps) |-> GroupPosition(i, temps[i])]] :
     doc_temp \in {<< >>, S_2C_to_8C, S_ambient},
     temps \in SeqsUpTo(GroupTemperatures, MaxGroupPositions)}

GroupInit ==
  /\ group_data \in GroupRecords
  /\ grouped = << >>
  /\ group_pc = "input"

GroupPositions ==
  /\ group_pc = "input"
  /\ grouped' = _group_positions_by_temperature(group_data)
  /\ group_pc' = "done"
  /\ UNCHANGED group_data

GroupNext == GroupPositions /\ UNCHANGED <<tempVars, mergeVars, acqVars, pipeVars,
                                           parseVars, coerceVars, reviewVars>>

InitGroup == GroupInit /\ TempIdle /\ MergeIdle /\ AcqIdle /\ PipeIdle /\ ParseIdle
  /\ CoerceIdle /\ ReviewIdle

SpecGroup == InitGroup /\ [][GroupNext]_vars

(***************************************************************************)
(* The field extractors, each called once on one document.                 *)
(***************************************************************************)
\* a match of a pattern with capture group g
Found(g) == [ok |-> TRUE, g1 |-> g]

\* what the header searches of parse_pi_text can find in a PI: nothing; an
\* invoice number, the exporter, a numeric date, the USD word and a consignee
\* block of two lines; the "(In GBP)" pattern, a date with a named month and a
\* consignee block of one line
PiHeaders ==
  { [currency_word |-> << >>, currency_match |-> NoMatch,
     invoice_no |-> <<NoMatch, NoMatch, NoMatch>>,
     exporter_name |-> <<NoMatch, NoMatch>>, exporter_address |-> << >>,
     invoice_date |-> <<NoMatch, NoMatch>>, terms_of_delivery |-> << >>,
     specification_date |-> <<NoMatch, NoMatch>>, buyer_block |-> << >>],
    [currency_word |-> S_USD, currency_match |-> NoMatch,
     invoice_no |-> <<NoMatch, Found(S_invoice_no), Found(<<"A", "B", "-", "7">>)>>,
     exporter_name |->
       <<Found(<<"M", "/", "S", " ", "A", "c", "m", "e", " ", " ", "C", "o", " ">>), NoMatch>>,
     exporter_address |-> <<"1", " ", "M", "a", "i", "n", " ", "R", "o", "a", "d">>,
     invoice_date |-> <<NoMatch, [ok |-> TRUE, g0 |-> S_date_pi]>>,
     terms_of_delivery |-> S_FOB,
     specification_date |-> <<NoMatch, Found(S_date_spec)>>,
     buyer_block |-> S_buyer \o <<"\n">> \o <<" ", "M", "o", "s", "c", "o", "w">>],
    [currency_word |-> << >>, currency_match |-> Found(<<"G", "B", "P">>),
     invoice_no |-> <<NoMatch, NoMatch, NoMatch>>,
     exporter_name |-> <<NoMatch, NoMatch>>, exporter_address |-> << >>,
     invoice_date |-> <<Found(<<"1", "-", "F", "e", "b", "-", "2", "0", "2", "4">>), NoMatch>>,
     terms_of_delivery |-> << >>,
     specification_date |-> <<NoMatch, NoMatch>>, buyer_block |-> S_buyer] }

\* rows row_pattern can match: with both prices, with price columns of
\* commas only, with a code the extractor rejects
PricedRow ==
  [code |-> <<"A", "B", "C", "-", "1", "2", "3">>, qty |-> <<"1", "0", "0">>,
   unit |-> <<"2", "5", ".", "0", "0">>, total |-> <<"2", ",", "5", "0", "0", ".", "0", "0">>]

UnpricedRow == [code |-> S_MFG_24, qty |-> <<"1", ",", "5">>, unit |-> <<",">>, total |-> <<",">>]

RejectedRow ==
  [code |-> <<"I", "n", "v", "o", "i", "c", "e">>, qty |-> <<"1">>, unit |-> <<"2">>,
   total |-> <<"3">>]

\* the rows of a PI: priced and unpriced rows in any order, or a rejected row
\* alone or before a priced row
PiRows ==
  SeqsUpTo({PricedRow, UnpricedRow}, MaxRows)
    \cup {<<RejectedRow>>, <<RejectedRow, PricedRow>>}

\* the i-th name candidate and the i-th packing candidate of the description lines
NameCandidate(i) ==
  IF i = 1
  THEN <<"A", "m", "o", "x", "i", "c", "i", "l", "l", "i", "n", " ", "5", "0", "0", " ", "m", "g">>
  ELSE <<"S", "t", "e", "r", "i", "l", "e", " ", "p", "o", "w", "d", "e", "r", " ">> \o NatToStr(i)

PackingCandidate(i) == NatToStr(i) \o <<" ", "g", "/", "v", "i", "a", "l">>

\* the lines of a goods block kept as name candidates
BlockNameCandidates ==
  { << >>,
    << <<"C", "e", "f", "i", "x", "i", "m", "e", " ", "1", " ", "g", "/", "v", "i", "a", "l">> >>,
    << <<"S", "t", "e", "r", "i", "l", "e", " ", "p", "o", "w", "d", "e", "r">>,
       <<"A", "m", "o", "x", "i", "c", "i", "l", "l", "i", "n", " ", "N", "a">> >> }

\* a goods block with k numbers (2.5, 5.0, 7.5, ...)
GoodsBlock(k, name_candidates) ==
  [found |-> TRUE, nums |-> [i \in 1..k |-> Float(25 * i, 1)],
   name_candidates |-> name_candidates,
   code |-> IF k % 2 = 0 THEN <<NoMatch, NoMatch>>
            ELSE <<NoMatch, Found(<<"M", "F", "G", "/", "2", "4">>)>>]

GoodsBlocks ==
  {[found |-> FALSE]}
    \cup {GoodsBlock(k, cs) : k \in 0..MaxBlockNumbers, cs \in BlockNameCandidates}

\* what the searches of parse_pi_text can find in a PI
PiFound ==
  {h @@ [rows |-> rows,
         name_candidates |-> [i \in 1..n |-> NameCandidate(i)],
         packing_candidates |-> [i \in 1..k |-> PackingCandidate(i)],
         block |-> block] :
     h \in PiHeaders, rows \in PiRows,
     n \in 0..MaxCandidates, k \in 0..MaxCandidates, block \in GoodsBlocks}

\* what the searches of parse_specification_text can find in a Specification
SpecificationFound ==
  {[terms_of_delivery |-> terms, period_of_validity |-> validity,
    specification_date |-> date, packing |-> packing] :
     terms \in {<<NoMatch, NoMatch, NoMatch>>,
                <<Found(<<" ", "C", "I", "F", " ", "M", "o", "s", "c", "o", "w", ",", " ", "a", "i", "r">>),
                  NoMatch, NoMatch>>,
                <<NoMatch, Found(<<"a", "s", " ", "a", "g", "r", "e", "e", "d", " ">>),
                  Found(S_FOB)>>,
                <<Found(<<"d", "a", "p", " ", " ", "H", "y", "d", "e", "r", "a", "b", "a", "d", " ", "b", "y", " ", "a", "i", "r">>),
                  NoMatch, NoMatch>>,
                <<NoMatch, NoMatch, Found(<<"n", "e", "t", " ", " ", "3", "0">>)>>},
     validity \in {<<NoMatch, NoMatch, NoMatch, NoMatch>>,
                   <<NoMatch, NoMatch, NoMatch, Found(S_60_days)>>},
     date \in {<<NoMatch, NoMatch, NoMatch>>, <<NoMatch, NoMatch, Found(S_date_spec)>>},
     packing \in {<<NoMatch, NoMatch>>, <<Found(S_5_ampoules), NoMatch>>}}

\* what the searches of parse_pi_text find in a page that has no labelled
\* block, invoice number, date or terms: the currency and the rows
FoundInPlainText(text) ==
  [currency_word |-> CurrencyWord(text), currency_match |-> CurrencyMatch(text),
   invoice_no |-> <<NoMatch, NoMatch, NoMatch>>,
   exporter_name |-> <<NoMatch, NoMatch>>, exporter_address |-> << >>,
   invoice_date |-> <<NoMatch, NoMatch>>, terms_of_delivery |-> << >>,
   specification_date |-> <<NoMatch, NoMatch>>, buyer_block |-> << >>,
   rows |-> RowsOf(text), name_candidates |-> << >>, packing_candidates |-> << >>,
   block |-> [found |-> HasGoodsHeader(text)], pi_text |-> text]

S_row_line == <<"A", "B", "C", "-", "1", "2", "3", " ", "1", "0", "0", " ", "2", "5", ".", "0", "0", " ", "2", "5", "0", "0", ".", "0", "0">>

S_In_USD == <<"(", "I", "n", " ", "U", "S", "D", ")">>

\* pages that hold the row line and the "(In USD)" marker, each on a line of
\* its own, and no other row
UsdRowPages ==
  { S_In_USD \o <<"\n">> \o S_row_line,
    S_row_line \o <<"\n">> \o S_In_USD,
    <<"P", "R", "O", "F", "O", "R", "M", "A", " ", "(", "I", "n", " ", "U", "S", "D", ")", " ", "\n", "\n", " ", " ", "A", "B", "C", "-", "1", "2", "3", " ", " ", " ", "1", "0", "0", " ", "2", "5", ".", "0", "0", "\t", "2", "5", "0", "0", ".", "0", "0", " ", "\n", "T", "h", "a", "n", "k", " ", "y", "o", "u">>,
    <<"A", "m", "o", "u", "n", "t", " ", "(", "I", "n", " ", " ", "U", "S", "D", ")", "\n", "I", "n", "v", "o", "i", "c", "e", " ", "1", " ", "2", " ", "3", "\n">> \o S_row_line }

\* other pages: the marker on the row's line, no marker, another marker, a
\* rupee sign before the marker, two rows, no row
OtherPlainPages ==
  { S_row_line \o <<" ">> \o S_In_USD,
    S_row_line,
    <<"(", "I", "n", " ", "G", "B", "P", ")", "\n">> \o S_row_line,
    <<"rupee", " ", "(", "I", "n", " ", "U", "S", "D", ")", "\n">> \o S_row_line,
    S_In_USD \o <<"\n">> \o S_row_line \o <<"\n", "X", "Y", "/", "9", " ", "1", ",", "5", " ", ",", " ", ",">>,
    S_In_USD }

PlainPagesFound == {FoundInPlainText(text) : text \in UsdRowPages \cup OtherPlainPages}

ParseInit ==
  /\ \/ parse_fn = "parse_pi_text" /\ parse_found \in PiFound \cup PlainPagesFound
     \/ parse_fn = "parse_specification_text" /\ parse_found \in SpecificationFound
     \/ parse_fn = "parse_msds_text" /\ parse_found \in TempTexts \cup {<< >>}
  /\ parse_out = Returned(<< >>)
  /\ parse_pc = "call"

CallParsePiText ==
  /\ parse_pc = "call"
  /\ parse_fn = "parse_pi_text"
  /\ parse_out' = parse_pi_text(parse_found)
  /\ parse_pc' = "done"
  /\ UNCHANGED <<parse_fn, parse_found>>

CallParseSpecificationText ==
  /\ parse_pc = "call"
  /\ parse_fn = "parse_specification_text"
  /\ parse_out' = parse_specification_text(parse_found)
  /\ parse_pc' = "done"
  /\ UNCHANGED <<parse_fn, parse_found>>

CallParseMsdsText ==
  /\ parse_pc = "call"
  /\ parse_fn = "parse_msds_text"
  /\ parse_out' = ParseMsdsTextCall(parse_found)
  /\ parse_pc' = "done"
  /\ UNCHANGED <<parse_fn, parse_found>>

ParseNext ==
  \/ CallParsePiText /\ UNCHANGED <<tempVars, mergeVars, acqVars, pipeVars, groupVars,
                                    coerceVars, reviewVars>>
  \/ CallParseSpecificationText
       /\ UNCHANGED <<tempVars, mergeVars, acqVars, pipeVars, groupVars, coerceVars, reviewVars>>
  \/ CallParseMsdsText /\ UNCHANGED <<tempVars, mergeVars, acqVars, pipeVars, groupVars,
                                      coerceVars, reviewVars>>

InitParse == ParseInit /\ TempIdle /\ MergeIdle /\ AcqIdle /\ PipeIdle /\ GroupIdle
  /\ CoerceIdle /\ ReviewIdle

SpecParse == InitParse /\ [][ParseNext]_vars

(***************************************************************************)
(* _to_float, called on the text of one numeric token.                     *)
(***************************************************************************)
\* the tokens: a number, a word or nothing, after a currency mark or a sign
\* and before a unit, a point, a dash or a line end
CoerceLeads == {<< >>, <<"R", "s", " ">>, <<"-">>, <<"deg">>}

CoerceBodies ==
  {<< >>, <<"1", ",", "2", "3", "4", ".", "5", "0">>, <<"a", "b", "c">>, <<"1", ".", "2", ".", "3">>, <<"0">>, <<"1", "2">>, <<"7", ".">>, <<".", "5">>, <<"1", " ", "0", "0", "0">>,
   <<"0", ".", "0">>}

CoerceTails == {<< >>, <<" ", "R", "s">>, <<".">>, <<"-">>, <<"\n">>}

CoerceTexts ==
  {lead \o body \o tail : lead \in CoerceLeads, body \in CoerceBodies, tail \in CoerceTails}

CoerceInit ==
  /\ coerce_value \in CoerceTexts
  /\ coerce_out = None
  /\ coerce_pc = "call"

CallToFloat ==
  /\ coerce_pc = "call"
  /\ coerce_out' = _to_float(coerce_value)
  /\ coerce_pc' = "done"
  /\ UNCHANGED coerce_value

CoerceNext ==
  CallToFloat
    /\ UNCHANGED <<tempVars, mergeVars, acqVars, pipeVars, groupVars, parseVars, reviewVars>>

InitCoerce ==
  /\ CoerceInit /\ TempIdle /\ MergeIdle /\ AcqIdle /\ PipeIdle /\ GroupIdle
  /\ ParseIdle /\ ReviewIdle

SpecCoerce == InitCoerce /\ [][CoerceNext]_vars

(***************************************************************************)
(* The review step of app.py on a record the pipeline returned: the user   *)
(* edits the table of positions and presses one of its two buttons.        *)
(***************************************************************************)
\* what the searches found in the PIs under review: the header with the USD
\* word, one name candidate, and a priced row alone or before an unpriced row
ReviewFound ==
  {(CHOOSE h \in PiHeaders : h.currency_word = S_USD)
     @@ [rows |-> rows, name_candidates |-> <<NameCandidate(1)>>,
         packing_candidates |-> << >>, block |-> [found |-> FALSE]] :
     rows \in {<<PricedRow>>, <<PricedRow, UnpricedRow>>}}

\* the records run_extraction_pipeline returned: the PI of one row merged with
\* no MSDS, the PI of two rows merged with an MSDS that gave a temperature
ReviewRecords ==
  {merge_extraction(parse_pi_text(found).value, [none |-> TRUE],
                    IF Len(found.rows) = 1 THEN [none |-> TRUE]
                    ELSE [none |-> FALSE,
                          items |-> [storage_temperature |-> S_m20C_to_m5C]]) :
     found \in ReviewFound}

\* what the user types into a cell of a column
CellTexts(column) ==
  IF column = "storage_temperature"
  THEN {<< >>, <<"-", "2", "C", " ", "t", "o", " ", "-", "8", "C", " ">>}
  ELSE IF column = "quantity" THEN {<<"-", "5">>, <<"a", "b", "c">>}
  ELSE IF column = "unit_price" THEN {<<" ", "1", ",", "2", "5", "0", ".", "5">>}
  ELSE {<< >>}

EditedColumns == {"quantity", "unit_price", "total_price", "storage_temperature"}

\* a row added in the editor: every cell empty
BlankRow == [k \in DOMAIN Position |-> << >>]

\* st.session_state.get("outputs") before any generation
NoOutputs == [generated |-> FALSE]

ReviewInit ==
  /\ extracted \in ReviewRecords
  /\ table = _positions_to_df(extracted.positions)
  /\ workflow_step = 2
  /\ edits = 0
  /\ outputs = NoOutputs

\* the user changes one cell of the table
EditCell ==
  /\ edits < MaxEdits
  /\ \E i \in 1..Len(table), column \in EditedColumns :
       \E text \in CellTexts(column) :
         /\ table[i][column] # text
         /\ table' = [table EXCEPT ![i][column] = text]
  /\ edits' = edits + 1
  /\ UNCHANGED <<extracted, workflow_step, outputs>>

\* the user adds a row at the end of the table
AddRow ==
  /\ edits < MaxEdits
  /\ Len(table) < MaxTableRows
  /\ table' = Append(table, BlankRow)
  /\ edits' = edits + 1
  /\ UNCHANGED <<extracted, workflow_step, outputs>>

\* the user deletes a row of the table
DeleteRow ==
  /\ edits < MaxEdits
  /\ \E i \in 1..Len(table) :
       table' = SubSeq(table, 1, i - 1) \o SubSeq(table, i + 1, Len(table))
  /\ edits' = edits + 1
  /\ UNCHANGED <<extracted, workflow_step, outputs>>

\* the "Apply Position Edits" button; the table of the next run shows the
\* positions it stored
ApplyPositionEdits ==
  /\ extracted' = [extracted EXCEPT !.positions = _df_to_positions(table)]
  /\ table' = _positions_to_df(_df_to_positions(table))
  /\ UNCHANGED <<workflow_step, edits, outputs>>

\* the "Copy EN Name/Packing -> RU" button
CopyEnToRu ==
  LET copied_positions ==
        [i \in 1..Len(table) |->
           CopyEnToRuPosition(_df_to_positions(table)[i], extracted.storage_temperature)]
  IN  /\ extracted' = [extracted EXCEPT !.positions = copied_positions]
      /\ table' = _positions_to_df(copied_positions)
      /\ UNCHANGED <<workflow_step, edits, outputs>>

ReviewNext ==
  \/ EditCell /\ UNCHANGED <<tempVars, mergeVars, acqVars, pipeVars, groupVars, parseVars,
                             coerceVars>>
  \/ AddRow /\ UNCHANGED <<tempVars, mergeVars, acqVars, pipeVars, groupVars, parseVars,
                           coerceVars>>
  \/ DeleteRow /\ UNCHANGED <<tempVars, mergeVars, acqVars, pipeVars, groupVars, parseVars,
                              coerceVars>>
  \/ ApplyPositionEdits /\ UNCHANGED <<tempVars, mergeVars, acqVars, pipeVars, groupVars,
                                       parseVars, coerceVars>>
  \/ CopyEnToRu /\ UNCHANGED <<tempVars, mergeVars, acqVars, pipeVars, groupVars,
                               parseVars, coerceVars>>

InitReview ==
  /\ ReviewInit /\ TempIdle /\ MergeIdle /\ AcqIdle /\ PipeIdle /\ GroupIdle
  /\ ParseIdle /\ CoerceIdle

SpecReview == InitReview /\ [][ReviewNext]_vars

(***************************************************************************)
(* The generation step of app.py on a record a review left: the user moves *)
(* between the steps and generates the files.                              *)
(***************************************************************************)
\* a temperature text of 70 characters whose 60th is a space
LongTemperature == [i \in 1..70 |-> IF i = 60 THEN " " ELSE "x"]

\* storage temperatures a review leaves in a position
GenerateTemperatures ==
  {<< >>, <<"+", "2", "C", " ", "t", "o", " ", "+", "8", "C">>,
   <<"-", "2", "C", " ", "t", "o", " ", "-", "8", "C">>, <<"(", "deg", ")">>,
   LongTemperature}

\* the records a review leaves: those the pipeline returned, with every row
\* deleted or with rows whose temperatures were typed in
GenerateRecords ==
  {[r EXCEPT !.positions =
       [i \in 1..Len(temps) |->
          [r.positions[1] EXCEPT !.code = <<"P">> \o NatToStr(i),
                                 !.storage_temperature = temps[i]]]] :
     r \in ReviewRecords, temps \in SeqsUpTo(GenerateTemperatures, MaxTableRows)}

\* lines 284-288: st.session_state["outputs"]
Outputs(price_docx, label_docs) ==
  [generated |-> TRUE, price_docx |-> price_docx, label_docs |-> label_docs,
   bundle |-> _pack_outputs(label_docs)]

GenerateInit ==
  /\ extracted \in GenerateRecords
  /\ table = _positions_to_df(extracted.positions)
  /\ workflow_step = 2
  /\ edits = 0
  /\ outputs = NoOutputs

\* the "Proceed to Step 3" button
ProceedToStep3 ==
  /\ workflow_step = 2
  /\ workflow_step' = 3
  /\ UNCHANGED <<extracted, table, edits, outputs>>

\* the "Back to Step 2 (Review)" button
BackToStep2 ==
  /\ workflow_step >= 3
  /\ workflow_step' = 2
  /\ UNCHANGED <<extracted, table, edits, outputs>>

\* the "Generate / Refresh Files" button
GenerateFiles ==
  /\ workflow_step >= 3
  /\ outputs' = Outputs(generate_price_list_doc(extracted),
                        generate_label_docs_by_temperature(extracted))
  /\ UNCHANGED <<extracted, table, workflow_step, edits>>

GenerateNext ==
  \/ ProceedToStep3 /\ UNCHANGED <<tempVars, mergeVars, acqVars, pipeVars, groupVars,
                                   parseVars, coerceVars>>
  \/ BackToStep2 /\ UNCHANGED <<tempVars, mergeVars, acqVars, pipeVars, groupVars,
                                parseVars, coerceVars>>
  \/ GenerateFiles /\ UNCHANGED <<tempVars, mergeVars, acqVars, pipeVars, groupVars,
                                  parseVars, coerceVars>>

InitGenerate ==
  /\ GenerateInit /\ TempIdle /\ MergeIdle /\ AcqIdle /\ PipeIdle /\ GroupIdle
  /\ ParseIdle /\ CoerceIdle

SpecGenerate == InitGenerate /\ [][GenerateNext]_vars

(***************************************************************************)
(* The whole workflow of app.py from an empty session: extraction, review, *)
(* generation and reset.  A session without the "extracted" key is held as *)
(* workflow_step = 0 with the default record and no table.                 *)
(***************************************************************************)
\* lines 118-141: the "Extract Documents" button with a PI uploaded
ExtractDocuments ==
  /\ \E record \in ReviewRecords :
       /\ extracted' = record
       /\ table' = _positions_to_df(record.positions)
  /\ workflow_step' = 2
  /\ outputs' = NoOutputs
  /\ UNCHANGED edits

\* lines 89-92 and 114-116: the "Start From Beginning" button
StartFromBeginning ==
  /\ extracted' = ExtractedData
  /\ table' = << >>
  /\ workflow_step' = 0
  /\ outputs' = NoOutputs
  /\ UNCHANGED edits

\* the buttons of the review step are shown when the session has a record
ShownApplyPositionEdits == workflow_step >= 2 /\ ApplyPositionEdits

WorkflowNext ==
  \/ ExtractDocuments
       /\ UNCHANGED <<tempVars, mergeVars, acqVars, pipeVars, groupVars, parseVars, coerceVars>>
  \/ StartFromBeginning
       /\ UNCHANGED <<tempVars, mergeVars, acqVars, pipeVars, groupVars, parseVars, coerceVars>>
  \/ EditCell
       /\ UNCHANGED <<tempVars, mergeVars, acqVars, pipeVars, groupVars, parseVars, coerceVars>>
  \/ ShownApplyPositionEdits
       /\ UNCHANGED <<tempVars, mergeVars, acqVars, pipeVars, groupVars, parseVars, coerceVars>>
  \/ ProceedToStep3
       /\ UNCHANGED <<tempVars, mergeVars, acqVars, pipeVars, groupVars, parseVars, coerceVars>>
  \/ BackToStep2
       /\ UNCHANGED <<tempVars, mergeVars, acqVars, pipeVars, groupVars, parseVars, coerceVars>>
  \/ GenerateFiles
       /\ UNCHANGED <<tempVars, mergeVars, acqVars, pipeVars, groupVars, parseVars, coerceVars>>

InitWorkflow ==
  /\ ReviewIdle /\ TempIdle /\ MergeIdle /\ AcqIdle /\ PipeIdle /\ GroupIdle
  /\ ParseIdle /\ CoerceIdle

SpecWorkflow == InitWorkflow /\ [][WorkflowNext]_vars

(***************************************************************************)
(* Claims about merge_extraction (checked under SpecMerge).                *)
(***************************************************************************)
\* the value an optional overlay holds for key: << >> when the overlay or the
\* key is absent
OverlayValue(overlay, key) ==
  IF ~overlay.none /\ key \in DOMAIN overlay.items THEN overlay.items[key] ELSE << >>

OverlaidField(overlay, key) ==
  /\ OverlayValue(overlay, key) # << >> => pi_data[key] = OverlayValue(overlay, key)
  /\ (OverlayValue(overlay, key) = << >> /\ pi_in[key] # << >>) => pi_data[key] = pi_in[key]

\* C2: after merge_extraction, each of terms_of_delivery, period_of_validity and
\* specification_date (Specification overlay) and storage_temperature (MSDS
\* overlay) equals the overlay's value when that value is non-empty, also when
\* the PI value is non-empty and different; when the overlay value is empty or
\* the key or the overlay is absent, a non-empty PI value is kept.
C2_OverlayWinsWhenNonEmpty ==
  merge_pc = "done" =>
    /\ OverlaidField(spec_data, "terms_of_delivery")
    /\ OverlaidField(spec_data, "period_of_validity")
    /\ OverlaidField(spec_data, "specification_date")
    /\ OverlaidField(msds_data, "storage_temperature")

\* PI "FOB" merged with a Specification overlay "CIF MOSCOW" gives "CIF MOSCOW"
C2_Witness ==
  /\ merge_pc = "done"
  /\ pi_in.terms_of_delivery = S_FOB
  /\ OverlayValue(spec_data, "terms_of_delivery") = S_CIF_MOSCOW
  /\ pi_data.terms_of_delivery = S_CIF_MOSCOW
  /\ OverlayValue(spec_data, "period_of_validity") = << >>
  /\ pi_in.period_of_validity = S_30_days
  /\ pi_data.period_of_validity = S_30_days

\* C3: after merge_extraction every Position's non-empty currency,
\* storage_temperature and packing_en is what it was before; an empty currency
\* is the document currency, an empty storage_temperature is the merged
\* document-level storage temperature, and an empty packing_en is the
\* Specification packing overlay when that overlay is non-empty.
C3_BackfillOneWay ==
  merge_pc = "done" =>
    /\ Len(pi_data.positions) = Len(pi_in.positions)
    /\ \A i \in 1..Len(pi_in.positions) :
         LET before == pi_in.positions[i]
             after == pi_data.positions[i]
         IN  /\ before.currency # << >> => after.currency = before.currency
             /\ before.storage_temperature # << >> =>
                  after.storage_temperature = before.storage_temperature
             /\ before.packing_en # << >> => after.packing_en = before.packing_en
             /\ before.currency = << >> => after.currency = pi_in.currency
             /\ before.storage_temperature = << >> =>
                  after.storage_temperature = pi_data.storage_temperature
             /\ (before.packing_en = << >> /\ OverlayValue(spec_data, "packing") # << >>) =>
                  after.packing_en = OverlayValue(spec_data, "packing")

\* a Position with currency "USD" keeps it under the document currency "EUR",
\* while a Position of the same record with no currency receives "EUR"
C3_Witness ==
  /\ merge_pc = "done"
  /\ pi_in.currency = S_EUR
  /\ Len(pi_in.positions) = 2
  /\ pi_in.positions[1].currency = S_USD
  /\ pi_data.positions[1].currency = S_USD
  /\ pi_in.positions[2].currency = << >>
  /\ pi_data.positions[2].currency = S_EUR

(***************************************************************************)
(* Claims about extract_pdf_text (checked under SpecAcq).                  *)
(***************************************************************************)
\* C1: when the OCR engine is unavailable, every output page is the page's
\* native text, every per_page_source entry is "native" and pages_ocrd = 0,
\* whatever force_ocr, prefer_ocr and the length of the native text are.
C1_UnavailableOcrKeepsNative ==
  ~tesseract_available =>
    /\ pages_ocrd = 0
    /\ \A i \in 1..Len(output_pages) :
         /\ output_pages[i] = native_pages[i]
         /\ per_page_source[i] = "native"
    /\ acq_pc = "done" =>
         /\ Len(output_pages) = Len(native_pages)
         /\ bundle.meta.pages_total = Len(native_pages)
         /\ bundle.meta.pages_ocrd = 0
         /\ bundle.meta.per_page_source = [i \in 1..Len(native_pages) |-> "native"]

\* a two-page document, its first page without native text, read with
\* force_ocr and prefer_ocr on a host without the OCR engine
C1_Witness ==
  /\ acq_pc = "done"
  /\ ~tesseract_available
  /\ force_ocr
  /\ prefer_ocr
  /\ Len(native_pages) = 2
  /\ Len(native_pages[1]) < min_native_chars
  /\ bundle.meta.pages_total = 2

\* C9: a page whose OCR raises with the full language set and again with the
\* single default language keeps its native text with source "native", and
\* no exception leaves extract_pdf_text.
C9_OcrFailureFallsBackToNative ==
  /\ acq_pc # "raised"
  /\ ocr_calls.raised =>
       /\ Len(output_pages) >= 1
       /\ output_pages[Len(output_pages)] = native_pages[Len(output_pages)]
       /\ per_page_source[Len(output_pages)] = "native"

(***************************************************************************)
(* Claims about the temperature functions (checked under SpecTemp).        *)
(***************************************************************************)
S_2_to_8_C == <<"2", " ", "t", "o", " ", "8", " ", "C">>

S_2_8_degC == <<"2", "-", "8", "deg", "C">>

TemperatureCanonicalizers == {"_normalize_temp", "_normalize_storage_temperature"}

\* C4: canonicalization is idempotent: applying the same canonicalizer to its
\* own result returns that result.
C4_CanonicalizeIdempotent ==
  (t_op \in TemperatureCanonicalizers /\ t_prev_op = t_op) => t_text = t_arg

\* C5: "2 to 8 C" and "2-8(deg)C", whose unit follows the second bound only,
\* canonicalize to "+2C to +8C".
C5_TrailingUnitRange ==
  (t_op \in TemperatureCanonicalizers /\ t_arg \in {S_2_to_8_C, S_2_8_degC}) =>
    t_text = S_p2C_to_p8C

\* the range pattern's match on each storage-related line, NoMatch on the others
MsdsLineRanges(lines) ==
  [i \in 1..Len(lines) |->
     IF MsdsStorageLine(lines[i]) THEN ExtTempSearch(lines[i]) ELSE NoMatch]

\* the first of a sequence of matches that is a match
FirstOk(matches) ==
  LET hits == {i \in 1..Len(matches) : matches[i].ok}
  IN  IF hits = {} THEN NoMatch ELSE matches[SetMin(hits)]

\* the range parse_msds_text finds first: on the first storage-related line
\* that holds a range, else anywhere in the text after between/from/at
MsdsExplicitRange(text) ==
  PreferFirst(FirstOk(MsdsLineRanges(StrippedLines(text))),
              IF MsdsTempGroup0(text) # << >> THEN ExtTempSearch(MsdsTempGroup0(text))
              ELSE NoMatch)

\* parse_msds_text returned the canonical form of the range m
ReturnsRange(m) == t_text = FmtRange(ParseInt(m.g1), ParseInt(m.g2))

\* C10: when the MSDS text holds an explicit numeric range, parse_msds_text
\* returns the canonical "+XC to +YC" form of that range, also when the text
\* mentions "room temperature" or "ambient".
C10_ExplicitRangeOutranksAmbient ==
  (t_op = "parse_msds_text" /\ MsdsExplicitRange(t_arg).ok) =>
    ReturnsRange(MsdsExplicitRange(t_arg))

(***************************************************************************)
(* Claims about run_extraction_pipeline (checked under SpecPipe).          *)
(***************************************************************************)
OcrParseWins ==
  force_ocr_pi /\ _pi_parse_score(pi_data_ocr) > _pi_parse_score(pi_data_native)

\* C7: the forced-OCR parse of the PI is the final record, and the log says
\* selected_source = "ocr", exactly when force_ocr_pi is set and the OCR parse
\* scores strictly higher than the native-first parse; otherwise (a tie, a
\* lower OCR score, force_ocr_pi not set) the native-first parse is final and
\* selected_source = "native".  The merged record is built from the selected
\* parse.
C7_HigherScoringParseSelected ==
  pipe_pc = "done" =>
    /\ logs["pi"].selected_source = (IF OcrParseWins THEN "ocr" ELSE "native")
    /\ logs["pi"].native_score = _pi_parse_score(pi_data_native)
    /\ force_ocr_pi => logs["pi"].ocr_score = <<_pi_parse_score(pi_data_ocr)>>
    /\ pi_in = (IF OcrParseWins THEN pi_data_ocr ELSE pi_data_native)
    /\ [pi_data EXCEPT !.raw = EmptyDict]
         = merge_extraction(IF OcrParseWins THEN pi_data_ocr ELSE pi_data_native,
                            spec_data, msds_data)

\* a native parse scoring 4 and a forced-OCR parse scoring 9: the OCR parse is selected
C7_Witness ==
  /\ pipe_pc = "done"
  /\ force_ocr_pi
  /\ native_score = 4
  /\ ocr_score = <<9>>
  /\ logs["pi"].selected_source = "ocr"
  /\ pi_in = pi_data_ocr
  /\ pi_data_ocr # pi_data_native

(***************************************************************************)
(* Claims about _group_positions_by_temperature (checked under SpecGroup). *)
(***************************************************************************)
\* the positions the function groups, and the temperature each falls under
GroupedPositions == PositionsOrBlank(group_data)

GroupedTemps ==
  [i \in 1..Len(GroupedPositions) |-> GroupTemperature(GroupedPositions[i], group_data)]

\* the index of the first position whose temperature is temp
FirstOccurrence(temp) ==
  SetMin({i \in 1..Len(GroupedPositions) : GroupedTemps[i] = temp})

\* the positions whose temperature is temp, in the record's order
RECURSIVE PositionsWith(_, _)
PositionsWith(temp, n) ==
  IF n = 0 THEN << >>
  ELSE IF GroupedTemps[n] = temp
       THEN Append(PositionsWith(temp, n - 1), GroupedPositions[n])
       ELSE PositionsWith(temp, n - 1)

\* the example of the claim: positions stored at "2C to 8C", "ambient", "2C to 8C"
GroupExample ==
  /\ Len(group_data.positions) = 3
  /\ group_data.positions[1].storage_temperature = S_2C_to_8C
  /\ group_data.positions[2].storage_temperature = S_ambient
  /\ group_data.positions[3].storage_temperature = S_2C_to_8C

\* C6: the groups come in the order in which their temperatures first occur
\* among the record's positions, one group per temperature, each holding the
\* positions of that temperature in the record's order; positions stored at
\* "2C to 8C", "ambient", "2C to 8C" give two groups, the first (the 2..8 range,
\* under its canonical key) holding positions 1 and 3 and the second (ambient,
\* under its canonical key) holding position 2.
C6_GroupsInFirstOccurrenceOrder ==
  group_pc = "done" =>
    /\ {grouped[g].key : g \in 1..Len(grouped)}
         = {GroupedTemps[i] : i \in 1..Len(GroupedPositions)}
    /\ \A g, h \in 1..Len(grouped) :
         g < h => FirstOccurrence(grouped[g].key) < FirstOccurrence(grouped[h].key)
    /\ \A g \in 1..Len(grouped) :
         grouped[g].positions = PositionsWith(grouped[g].key, Len(GroupedPositions))
    /\ GroupExample =>
         /\ Len(grouped) = 2
         /\ grouped[1].key = S_p2C_to_p8C
         /\ grouped[1].positions = <<group_data.positions[1], group_data.positions[3]>>
         /\ grouped[2].key = DocBuilder_DEFAULT_STORAGE_TEMPERATURE_EN
         /\ grouped[2].positions = <<group_data.positions[2]>>

C6_Witness ==
  /\ group_pc = "done"
  /\ GroupExample
  /\ Len(grouped) = 2
  /\ Len(grouped[1].positions) = 2

(***************************************************************************)
(* Claims about the field extractors (checked under SpecParse).            *)
(***************************************************************************)
\* none of the patterns tried for a field matched
AllMiss(matches) == \A i \in 1..Len(matches) : ~matches[i].ok

\* the position _extract_positions makes up when it finds none
DefaultPosition(currency) ==
  [Position EXCEPT !.code = <<"I", "T", "E", "M", "-", "1">>, !.currency = currency]

\* nothing parse_pi_text searches for is in the PI
PiAllMiss ==
  /\ parse_found.currency_word = << >> /\ ~parse_found.currency_match.ok
  /\ AllMiss(parse_found.invoice_no) /\ AllMiss(parse_found.exporter_name)
  /\ AllMiss(parse_found.invoice_date) /\ AllMiss(parse_found.specification_date)
  /\ parse_found.buyer_block = << >> /\ parse_found.rows = << >>
  /\ parse_found.name_candidates = << >> /\ parse_found.packing_candidates = << >>
  /\ ~parse_found.block.found

\* C8: a call of parse_pi_text, parse_specification_text or parse_msds_text
\* never raises.  It returns the whole structure: an ExtractedData with at
\* least one position, the four keys of the Specification dict, the one key
\* of the MSDS dict.  A field none of whose patterns matched is empty, and a
\* PI in which nothing was found gives the one default position ITEM-1.
C8_ExtractorsAreTotal ==
  parse_pc = "done" =>
    /\ ~parse_out.raised
    /\ parse_fn = "parse_pi_text" =>
         /\ DOMAIN parse_out.value = DOMAIN ExtractedData
         /\ parse_out.value.positions # << >>
         /\ \A field \in {"invoice_no", "exporter_name", "invoice_date",
                          "specification_date"} :
              AllMiss(parse_found[field]) => parse_out.value[field] = << >>
         /\ (parse_found.currency_word = << >> /\ ~parse_found.currency_match.ok)
              => parse_out.value.currency = << >>
         /\ parse_found.buyer_block = << >>
              => parse_out.value.buyer_name = << >> /\ parse_out.value.buyer_address = << >>
         /\ PiAllMiss => parse_out.value.positions = <<DefaultPosition(<< >>)>>
    /\ parse_fn = "parse_specification_text" =>
         /\ DOMAIN parse_out.value =
              {"terms_of_delivery", "period_of_validity", "specification_date", "packing"}
         /\ \A field \in DOMAIN parse_out.value :
              AllMiss(parse_found[field]) => parse_out.value[field] = << >>
    /\ parse_fn = "parse_msds_text" =>
         /\ DOMAIN parse_out.value = {"storage_temperature"}
         /\ (~ExtTempSearch(parse_found).ok /\ ~SaysAmbient(Lower(parse_found)))
              => parse_out.value.storage_temperature = << >>

\* parse_pi_text has returned for a PI in which nothing was found
C8_Witness ==
  /\ parse_pc = "done"
  /\ parse_fn = "parse_pi_text"
  /\ PiAllMiss
  /\ ~parse_out.raised
  /\ parse_out.value.positions = <<DefaultPosition(<< >>)>>


(***************************************************************************)
(* C11: after merge_extraction the record's storage_temperature is never   *)
(* empty; when neither the MSDS overlay nor the PI record supplied one it  *)
(* is the fixed default ambient range; and every position of the merged    *)
(* record has a non-empty storage_temperature.                             *)
(***************************************************************************)
NoTemperatureSupplied ==
  /\ pi_in.storage_temperature = << >>
  /\ GetDefault(DictOrEmpty(msds_data), "storage_temperature") = << >>

C11_MergedTemperatureNeverEmpty ==
  merge_pc = "done" =>
    /\ pi_data.storage_temperature # << >>
    /\ NoTemperatureSupplied =>
         pi_data.storage_temperature = DEFAULT_STORAGE_TEMPERATURE_EN
    /\ \A i \in 1..Len(pi_data.positions) :
         pi_data.positions[i].storage_temperature # << >>

\* a merge with no temperature from anywhere: the record and its position,
\* which had none of its own, both carry the default
C11_Witness ==
  /\ merge_pc = "done"
  /\ NoTemperatureSupplied
  /\ Len(pi_in.positions) >= 1
  /\ pi_in.positions[1].storage_temperature = << >>
  /\ pi_data.storage_temperature = DEFAULT_STORAGE_TEMPERATURE_EN
  /\ pi_data.positions[1].storage_temperature = DEFAULT_STORAGE_TEMPERATURE_EN

(***************************************************************************)
(* C12: in every state of the review, each position of the record has a    *)
(* quantity, a unit price and a total price that is absent or is not       *)
(* negative.                                                               *)
(***************************************************************************)
AbsentOrNonNegative(number) == number = None \/ number[1].m >= 0

C12_NumbersNonNegative ==
  \A i \in 1..Len(extracted.positions) :
    /\ AbsentOrNonNegative(extracted.positions[i].quantity)
    /\ AbsentOrNonNegative(extracted.positions[i].unit_price)
    /\ AbsentOrNonNegative(extracted.positions[i].total_price)

(***************************************************************************)
(* C13: _to_float drops spaces, thousands separators and every character   *)
(* that is not a digit, a point or a dash, and converts what is left:      *)
(* "1,234.50" and "1,234.50 Rs" give 1234.5, and a text that still does    *)
(* not convert ("abc", "", several points, a lone sign) gives null, never  *)
(* zero.                                                                   *)
(***************************************************************************)
\* the digits, points and dashes of a text, in order
NumericChars(text) == SelectSeq(text, LAMBDA c : IsDigit(c) \/ c = "." \/ c = "-")

\* an optional leading dash, then digits with at most one point among them
\* and at least one digit
IsDecimal(chars) ==
  LET body == IF chars # << >> /\ chars[1] = "-" THEN Tail(chars) ELSE chars
  IN  /\ \A i \in 1..Len(body) : body[i] # "-"
      /\ Cardinality({i \in 1..Len(body) : body[i] = "."}) <= 1
      /\ \E i \in 1..Len(body) : IsDigit(body[i])

\* the float v is the number the decimal chars writes
IsValueOf(v, chars) ==
  LET points == {i \in 1..Len(chars) : chars[i] = "."}
      decimals == IF points = {} THEN 0 ELSE Len(chars) - SetMax(points)
      digits == DigitsToNat(SelectSeq(chars, IsDigit))
  IN  v.m * Pow10(decimals) = (IF chars[1] = "-" THEN 0 - digits ELSE digits) * Pow10(v.e)

C13_ToFloatCoercion ==
  coerce_pc = "done" =>
    /\ coerce_value \in {<<"1", ",", "2", "3", "4", ".", "5", "0">>, <<"1", ",", "2", "3", "4", ".", "5", "0", " ", "R", "s">>} => coerce_out = <<[m |-> 12345, e |-> 1]>>
    /\ coerce_value \in {<<"a", "b", "c">>, << >>, <<"1", ".", "2", ".", "3">>, <<"-">>} => coerce_out = None
    /\ ~IsDecimal(NumericChars(coerce_value)) => coerce_out = None
    /\ IsDecimal(NumericChars(coerce_value)) =>
         /\ coerce_out # None
         /\ IsValueOf(coerce_out[1], NumericChars(coerce_value))

\* the amount with its currency gives the number
C13_Witness ==
  /\ coerce_pc = "done"
  /\ coerce_value = <<"1", ",", "2", "3", "4", ".", "5", "0", " ", "R", "s">>
  /\ coerce_out = <<[m |-> 12345, e |-> 1]>>

(***************************************************************************)
(* C14: a PI page that holds the line "ABC-123 100 25.00 2500.00" and the  *)
(* marker "(In USD)", and no other row or currency, gives a record with    *)
(* exactly one position, of code "ABC-123", quantity 100, unit price 25,   *)
(* total price 2500 and currency "USD"; and a first row that has both      *)
(* prices keeps its code and numbers whatever the goods block holds.       *)
(***************************************************************************)
UsdRowPosition ==
  [Position EXCEPT !.code = <<"A", "B", "C", "-", "1", "2", "3">>, !.quantity = <<[m |-> 100, e |-> 0]>>,
                   !.unit_price = <<[m |-> 25, e |-> 0]>>,
                   !.total_price = <<[m |-> 2500, e |-> 0]>>, !.currency = <<"U", "S", "D">>]

C14_UsdRowEndToEnd ==
  (parse_pc = "done" /\ parse_fn = "parse_pi_text") =>
    /\ ("pi_text" \in DOMAIN parse_found /\ parse_found.pi_text \in UsdRowPages) =>
         /\ ~parse_out.raised
         /\ parse_out.value.positions = <<UsdRowPosition>>
         /\ parse_out.value.currency = <<"U", "S", "D">>
    /\ (parse_found.rows # << >> /\ parse_found.rows[1] = PricedRow) =>
         /\ ~parse_out.raised
         /\ parse_out.value.positions[1].code = <<"A", "B", "C", "-", "1", "2", "3">>
         /\ parse_out.value.positions[1].quantity = <<[m |-> 100, e |-> 0]>>
         /\ parse_out.value.positions[1].unit_price = <<[m |-> 25, e |-> 0]>>
         /\ parse_out.value.positions[1].total_price = <<[m |-> 2500, e |-> 0]>>

\* the page of the marker and the row line has been parsed
C14_Witness ==
  /\ parse_pc = "done"
  /\ parse_fn = "parse_pi_text"
  /\ "pi_text" \in DOMAIN parse_found
  /\ parse_found.pi_text = S_In_USD \o <<"\n">> \o S_row_line
  /\ parse_out.value.positions = <<UsdRowPosition>>

\* a priced first row has been kept although the goods block gives a
\* position with both prices
C14_WitnessBlock ==
  /\ parse_pc = "done"
  /\ parse_fn = "parse_pi_text"
  /\ parse_found.rows # << >> /\ parse_found.rows[1] = PricedRow
  /\ parse_found.block.found
  /\ Len(parse_found.block.nums) >= 2
  /\ parse_found.block.name_candidates # << >>
  /\ parse_out.value.positions[1].code = <<"A", "B", "C", "-", "1", "2", "3">>

(***************************************************************************)
(* Claims about the generated files (checked under SpecGenerate).          *)
(***************************************************************************)
\* a list of exactly one Position whose fields are all empty
OneEmptyPosition(positions) ==
  /\ Len(positions) = 1
  /\ \A f \in {"code", "name_en", "name_ru", "packing_en", "packing_ru", "currency",
               "storage_temperature"} : positions[1][f] = << >>
  /\ \A f \in {"quantity", "unit_price", "total_price"} : positions[1][f] = None

\* C15: a record whose positions are empty is shown and rendered as one empty
\* Position: the review table has one row of empty cells, the price list is
\* built from one empty Position, and there is one label file, built from
\* one empty Position; and no table, price list or label file is ever built
\* from zero positions.
C15_EmptyPositionsRenderAsOne ==
  /\ Len(table) >= 1
  /\ outputs.generated =>
       /\ Len(outputs.price_docx.positions) >= 1
       /\ Len(outputs.label_docs) >= 1
       /\ \A i \in 1..Len(outputs.label_docs) : Len(outputs.label_docs[i].doc.positions) >= 1
  /\ extracted.positions = << >> =>
       /\ Len(table) = 1
       /\ \A column \in DOMAIN table[1] : table[1][column] = << >>
       /\ outputs.generated =>
            /\ OneEmptyPosition(outputs.price_docx.positions)
            /\ Len(outputs.label_docs) = 1
            /\ OneEmptyPosition(outputs.label_docs[1].doc.positions)

\* the files of a record without positions have been generated
C15_Witness ==
  /\ extracted.positions = << >>
  /\ outputs.generated
  /\ Len(table) = 1
  /\ OneEmptyPosition(outputs.price_docx.positions)
  /\ OneEmptyPosition(outputs.label_docs[1].doc.positions)

(***************************************************************************)
(* Claims about the page selection of extract_pdf_text (checked under      *)
(* SpecAcq).                                                               *)
(***************************************************************************)
\* C16: for a page on which OCR was attempted, the OCR text is the page's
\* output, with source "ocr", exactly when force_ocr is set, or the OCR score
\* is at least the native score, or OCR is preferred and the OCR score is at
\* least 80% of the native score; with OCR neither forced nor preferred an
\* OCR score equal to the native score selects OCR.
C16_OcrSelectedWhenScoreMeetsNative ==
  (acq_pc = "loop" /\ page_scores # << >>) =>
    (per_page_source[Len(per_page_source)] = "ocr"
       <=> \/ force_ocr
           \/ page_scores[1].ocr_score >= page_scores[1].native_score
           \/ prefer_ocr /\ 5 * page_scores[1].ocr_score >= 4 * page_scores[1].native_score)

(***************************************************************************)
(* Claims about the goods-block fallback of _extract_positions (checked    *)
(* under SpecParse).                                                       *)
(***************************************************************************)
\* the first position of the strict rows as it is before the goods block is
\* consulted (lines 200-268)
EarlierFirstPosition ==
  DescribePosition(RowPositions(parse_found.rows, parse_out.value.currency)[1], 0,
                   parse_found.name_candidates, parse_found.packing_candidates).value

\* the first strict row lacks a price and the goods block gives a position
\* with both prices
FallbackSubstituted ==
  /\ parse_pc = "done"
  /\ parse_fn = "parse_pi_text"
  /\ ~parse_out.raised
  /\ RowPositions(parse_found.rows, parse_out.value.currency) # << >>
  /\ \/ EarlierFirstPosition.unit_price = None
     \/ EarlierFirstPosition.total_price = None
  /\ parse_found.block.found
  /\ Len(parse_found.block.nums) >= 2
  /\ parse_found.block.name_candidates # << >>

\* C17: when the first position lacks a unit or total price and the goods
\* block fallback has both, the first position of the result has the
\* fallback's prices and keeps the name_en and the packing_en the earlier
\* position had, when these were not empty.
C17_FallbackKeepsEarlierNameAndPacking ==
  FallbackSubstituted =>
    /\ parse_out.value.positions[1].unit_price # None
    /\ parse_out.value.positions[1].total_price # None
    /\ EarlierFirstPosition.name_en # << >> =>
         parse_out.value.positions[1].name_en = EarlierFirstPosition.name_en
    /\ EarlierFirstPosition.packing_en # << >> =>
         parse_out.value.positions[1].packing_en = EarlierFirstPosition.packing_en

\* C18: when no strict row is kept and the PI has a goods block, the numbers
\* of the first position follow the count of the block's numbers: three or
\* more give quantity, unit price and total price the last three in that
\* order; two give quantity 1 and the two as unit and total price; one gives
\* the quantity alone; none gives no number.
C18_FallbackNumbersByArity ==
  (/\ parse_pc = "done"
   /\ parse_fn = "parse_pi_text"
   /\ ~parse_out.raised
   /\ RowPositions(parse_found.rows, parse_out.value.currency) = << >>
   /\ parse_found.block.found) =>
    LET nums == parse_found.block.nums
        n == Len(parse_found.block.nums)
        first == parse_out.value.positions[1]
    IN  /\ n >= 3 => /\ first.quantity = <<nums[n - 2]>>
                     /\ first.unit_price = <<nums[n - 1]>>
                     /\ first.total_price = <<nums[n]>>
        /\ n = 2 => /\ first.quantity = <<[m |-> 1, e |-> 0]>>
                    /\ first.unit_price = <<nums[1]>>
                    /\ first.total_price = <<nums[2]>>
        /\ n = 1 => /\ first.quantity = <<nums[1]>>
                    /\ first.unit_price = None
                    /\ first.total_price = None
        /\ n = 0 => /\ first.quantity = None
                    /\ first.unit_price = None
                    /\ first.total_price = None

(***************************************************************************)
(* Claims about the diagnostic log of run_extraction_pipeline (checked     *)
(* under SpecPipe).                                                        *)
(***************************************************************************)
\* preview is the first 3000 characters of text, or text when it is shorter
IsPreviewOf(preview, text) ==
  /\ Len(preview) <= 3000
  /\ Len(preview) <= Len(text)
  /\ Len(preview) = 3000 \/ Len(preview) = Len(text)
  /\ preview = SubSeq(text, 1, Len(preview))

\* the entry of a document is made from one text bundle extract_pdf_text can
\* return for it
IsEntryOf(entry, text_bundle) ==
  /\ DOMAIN entry = {"meta", "text_preview"}
  /\ entry.meta = text_bundle.meta
  /\ IsPreviewOf(entry.text_preview, text_bundle.text)

\* the record the pipeline returns, from the parses and the overlays alone
RecordWithoutLog ==
  [merge_extraction(IF force_ocr_pi /\ _pi_parse_score(pi_data_ocr) > _pi_parse_score(pi_data_native)
                    THEN pi_data_ocr ELSE pi_data_native,
                    spec_data, msds_data)
     EXCEPT !.raw = [spec_data |-> spec_data.items, msds_data |-> msds_data.items]]

LogAfterRun ==
  pipe_pc = "done" =>
    /\ DOMAIN logs \subseteq {"pi", "pi_ocr_candidate", "specification", "msds"}
    /\ "pi" \in DOMAIN logs
    /\ "pi_ocr_candidate" \in DOMAIN logs <=> force_ocr_pi
    /\ "specification" \in DOMAIN logs <=> has_specification
    /\ "msds" \in DOMAIN logs <=> has_msds
    /\ IsPreviewOf(logs["pi"].text_preview, pi_text.text)
    /\ pi_text = (IF selected_source = "ocr" THEN pi_text_ocr ELSE pi_text_native)
    /\ force_ocr_pi => IsEntryOf(logs["pi_ocr_candidate"], pi_text_ocr)
    /\ has_specification =>
         \E text_bundle \in SpecificationBundles[force_ocr_specification][host_tesseract] :
           IsEntryOf(logs["specification"], text_bundle)
    /\ has_msds =>
         \E text \in MsdsTexts :
           \E text_bundle \in MsdsBundles[text][force_ocr_msds][host_tesseract] :
             IsEntryOf(logs["msds"], text_bundle)
    /\ pi_data = RecordWithoutLog

\* a step leaves the entries of the log as they are and adds at most one
LogWrittenOnce ==
  /\ \A key \in DOMAIN logs : key \in DOMAIN logs' /\ logs'[key] = logs[key]
  /\ Cardinality(DOMAIN logs') <= Cardinality(DOMAIN logs) + 1

\* C19: after a run of run_extraction_pipeline that returns, the log holds
\* "pi" always, "pi_ocr_candidate" exactly when force_ocr_pi is set,
\* "specification" and "msds" exactly when the document was given, and no
\* other key; the text_preview of an entry is the first 3000 characters of
\* the document's chosen text (the whole text when it is shorter); an entry,
\* once written, is never changed or removed; and the record returned is the
\* merge of the selected parse with the overlays, which no entry of the log
\* enters.
C19_LogIsObservational == [](LogAfterRun) /\ [][LogWrittenOnce]_vars

\* a run with the three documents and the forced OCR pass has returned, and
\* the preview of the Specification is cut at 3000 characters
C19_Witness ==
  /\ pipe_pc = "done"
  /\ force_ocr_pi /\ has_specification /\ has_msds
  /\ DOMAIN logs = {"pi", "pi_ocr_candidate", "specification", "msds"}
  /\ Len(logs["specification"].text_preview) = 3000
  /\ logs["specification"].meta.per_page_source = <<"ocr">>
  /\ Len(logs["pi"].text_preview) < 3000

\* the suffix of a temperature: its text from the first to the last letter or
\* digit, each run of other characters in between written as one "_", cut to
\* 60 characters; "ambient" when the text has no letter or digit
SuffixOf(temp) ==
  LET alnum == {i \in 1..Len(temp) : IsAlnum(temp[i])}
      core == SubSeq(temp, SetMin(alnum), SetMax(alnum))
      written == SelectSeq([i \in 1..Len(core) |->
                              IF IsAlnum(core[i]) THEN core[i]
                              ELSE IF IsAlnum(core[i - 1]) THEN "_" ELSE ""],
                           LAMBDA c : c # "")
  IN  IF alnum = {} THEN <<"a", "m", "b", "i", "e", "n", "t">>
      ELSE IF Len(written) <= 60 THEN written ELSE SubSeq(written, 1, 60)

SuffixedLabel(temp) == <<"L", "a", "b", "e", "l", "_">> \o SuffixOf(temp) \o <<".", "d", "o", "c", "x">>

LabelFilenames == {outputs.label_docs[i].filename : i \in 1..Len(outputs.label_docs)}

\* C20: with one temperature group the only label file is "Label.docx";
\* with more than one group the label files are the files
\* "Label_<suffix>.docx" of the groups, the suffix being the group's
\* canonical temperature with each run of non-alphanumeric characters
\* replaced by one underscore, the underscores at its ends removed, cut to 60
\* characters, and "ambient" when that is empty.
C20_LabelFilesNamedByGroupCount ==
  outputs.generated =>
    /\ Len(_group_positions_by_temperature(extracted)) = 1 =>
         /\ Len(outputs.label_docs) = 1
         /\ outputs.label_docs[1].filename = <<"L", "a", "b", "e", "l", ".", "d", "o", "c", "x">>
    /\ Len(_group_positions_by_temperature(extracted)) > 1 =>
         LabelFilenames =
           {SuffixedLabel(_group_positions_by_temperature(extracted)[i].key) :
              i \in 1..Len(_group_positions_by_temperature(extracted))}
    /\ outputs.bundle = <<<<"P", "r", "i", "c", "e", "_", "L", "i", "s", "t", ".", "d", "o", "c", "x">>>>
                          \o [i \in 1..Len(outputs.label_docs) |-> outputs.label_docs[i].filename]

\* the files of two groups have been generated, and the suffix of one was cut
\* at 60 characters, where it ends in an underscore
C20_Witness ==
  /\ outputs.generated
  /\ Len(_group_positions_by_temperature(extracted)) = 2
  /\ Len(outputs.label_docs) = 2
  /\ \E i \in 1..2 :
       outputs.label_docs[i].filename
         = <<"L", "a", "b", "e", "l", "_">> \o [k \in 1..60 |-> IF k = 60 THEN "_" ELSE "x"] \o <<".", "d", "o", "c", "x">>
  /\ \E i \in 1..2 : outputs.label_docs[i].filename = <<"L", "a", "b", "e", "l", "_", "a", "m", "b", "i", "e", "n", "t", ".", "d", "o", "c", "x">>

(***************************************************************************)
(* Claims about the workflow of app.py (checked under SpecWorkflow).       *)
(***************************************************************************)
\* C21: once files have been generated, every user action other than the
\* reset ("Start From Beginning") leaves generated files in the session:
\* edits, stored position edits, the changes of step and a new extraction
\* keep outputs, and only the reset removes them.
C21_OutputsStayUntilReset ==
  [][(outputs.generated /\ workflow_step' # 0) => outputs'.generated]_vars

(***************************************************************************)
(* Claims about the label files and their groups (checked under            *)
(* SpecGenerate).                                                          *)
(***************************************************************************)
\* C22: generate_label_docs_by_temperature gives one label file per
\* temperature group: as many files as _group_positions_by_temperature gives
\* groups, and the file of each group holds that group's positions and
\* temperature, so that no group's label is overwritten by another's.
C22_OneLabelFilePerGroup ==
  outputs.generated =>
    /\ Len(outputs.label_docs) = Len(_group_positions_by_temperature(extracted))
    /\ \A i \in 1..Len(_group_positions_by_temperature(extracted)) :
         \E j \in 1..Len(outputs.label_docs) :
           /\ outputs.label_docs[j].doc.temperature
                = _group_positions_by_temperature(extracted)[i].key
           /\ outputs.label_docs[j].doc.positions
                = _group_positions_by_temperature(extracted)[i].positions

(***************************************************************************)
(* Claims about the groups of ambient positions and about the groups as a  *)
(* partition (checked under SpecGroup).                                    *)
(***************************************************************************)
\* the ambient temperatures: "ambient", "room temperature" and the default
\* that merge_extraction fills in
AmbientTexts == {S_ambient, S_room_temperature, DEFAULT_STORAGE_TEMPERATURE_EN}

\* every position of the record is ambient: its temperature is an ambient
\* text, or is empty under a document default that is empty or ambient
AllPositionsAmbient ==
  /\ group_data.positions # << >>
  /\ group_data.storage_temperature \in AmbientTexts \cup {<< >>}
  /\ \A i \in 1..Len(group_data.positions) :
       group_data.positions[i].storage_temperature \in AmbientTexts \cup {<< >>}

\* C23: a record whose positions are all ambient (empty under an empty or
\* ambient document default, "ambient", "room temperature", or the default
\* ambient text of merge_extraction) is grouped into a single group.
C23_AmbientPositionsFormOneGroup ==
  (group_pc = "done" /\ AllPositionsAmbient) => Len(grouped) = 1

\* where a position stands in the record (the positions of a record differ
\* in their codes)
PlaceInRecord(position) ==
  CHOOSE i \in 1..Len(GroupedPositions) : GroupedPositions[i] = position

\* the places of the groups: group g, k-th position
GroupPlaces ==
  UNION {{<<g, k>> : k \in 1..Len(grouped[g].positions)} : g \in 1..Len(grouped)}

\* C24: the groups are a partition of the record's positions (of the one
\* empty Position when the record has none): no group is empty, no two
\* groups share a key, every position stands at exactly one place of exactly
\* one group, the sizes of the groups add up to the number of positions, and
\* inside a group the positions follow each other as in the record.
C24_GroupsPartitionPositions ==
  group_pc = "done" =>
    /\ \A g \in 1..Len(grouped) : grouped[g].positions # << >>
    /\ \A g, h \in 1..Len(grouped) : grouped[g].key = grouped[h].key => g = h
    /\ \A gk \in GroupPlaces :
         \E i \in 1..Len(GroupedPositions) :
           GroupedPositions[i] = grouped[gk[1]].positions[gk[2]]
    /\ \A i \in 1..Len(GroupedPositions) :
         Cardinality({gk \in GroupPlaces :
                        grouped[gk[1]].positions[gk[2]] = GroupedPositions[i]}) = 1
    /\ Cardinality(GroupPlaces) = Len(GroupedPositions)
    /\ \A g \in 1..Len(grouped) :
         \A k, l \in 1..Len(grouped[g].positions) :
           k < l => PlaceInRecord(grouped[g].positions[k])
                      < PlaceInRecord(grouped[g].positions[l])

\* three positions have been put into two groups, the first and the third in
\* the first of them
C24_Witness ==
  /\ group_pc = "done"
  /\ Len(group_data.positions) = 3
  /\ Len(grouped) = 2
  /\ grouped[1].positions = <<group_data.positions[1], group_data.positions[3]>>
  /\ grouped[2].positions = <<group_data.positions[2]>>

(***************************************************************************)
(* Claims about the ExtractionMeta of extract_pdf_text (checked under      *)
(* SpecAcq).                                                               *)
(***************************************************************************)
\* C25: the meta of the bundle extract_pdf_text returns is consistent:
\* pages_total is the length of per_page_source and the number of native
\* pages, every entry of per_page_source is "native" or "ocr", pages_ocrd is
\* the number of "ocr" entries, and 0 <= pages_ocrd <= pages_total.
C25_MetaIsConsistent ==
  acq_pc = "done" =>
    /\ bundle.meta.pages_total = Len(bundle.meta.per_page_source)
    /\ bundle.meta.pages_total = Len(native_pages)
    /\ \A i \in 1..Len(bundle.meta.per_page_source) :
         bundle.meta.per_page_source[i] \in {"native", "ocr"}
    /\ bundle.meta.pages_ocrd
         = Cardinality({i \in 1..Len(bundle.meta.per_page_source) :
                          bundle.meta.per_page_source[i] = "ocr"})
    /\ 0 <= bundle.meta.pages_ocrd
    /\ bundle.meta.pages_ocrd <= bundle.meta.pages_total

\* a document of two pages has been returned with one page from OCR and one
\* native page
C25_Witness ==
  /\ acq_pc = "done"
  /\ bundle.meta.per_page_source \in {<<"native", "ocr">>, <<"ocr", "native">>}
  /\ bundle.meta.pages_total = 2
  /\ bundle.meta.pages_ocrd = 1

(***************************************************************************)
(* Claims about what merge_extraction leaves alone (checked under          *)
(* SpecMerge).                                                             *)
(***************************************************************************)
\* C26: merge_extraction leaves invoice_no, invoice_date, the buyer's and the
\* exporter's names and addresses, the document currency and raw as they
\* were, returns as many positions as it was given, in the same order, and
\* leaves the code, the names, the quantity, the prices and packing_ru of
\* every position as they were, whatever the overlays are.
C26_MergeLeavesTheRestAlone ==
  merge_pc = "done" =>
    /\ \A f \in {"invoice_no", "invoice_date", "buyer_name", "buyer_address",
                 "exporter_name", "exporter_name_ru", "exporter_address", "currency",
                 "raw"} : pi_data[f] = pi_in[f]
    /\ Len(pi_data.positions) = Len(pi_in.positions)
    /\ \A i \in 1..Len(pi_in.positions) :
         \A f \in {"code", "name_en", "name_ru", "quantity", "unit_price", "total_price",
                   "packing_ru"} : pi_data.positions[i][f] = pi_in.positions[i][f]

\* two positions have been merged with both overlays given, which changed the
\* terms of delivery and the packing of the second position
C26_Witness ==
  /\ merge_pc = "done"
  /\ ~spec_data.none /\ ~msds_data.none
  /\ Len(pi_in.positions) = 2
  /\ pi_in.positions[1].code # pi_in.positions[2].code
  /\ pi_data.terms_of_delivery # pi_in.terms_of_delivery
  /\ pi_data.positions[2].packing_en # pi_in.positions[2].packing_en
  /\ pi_data.positions[1].code = pi_in.positions[1].code
  /\ pi_data.invoice_date = pi_in.invoice_date /\ pi_in.invoice_date # << >>

(***************************************************************************)
(* Claims about the delivery terms of the Specification in the rendered    *)
(* context (checked under SpecParse).                                      *)
(***************************************************************************)
\* C27: the terms of delivery that parse_specification_text returns, an
\* Incoterm with an optional "BY AIR" and an optional city or cleaned text
\* without an Incoterm, are placed unchanged in the TERMS_OF_DELIVERY entry of
\* the context: the renderer's _normalize_terms returns the string it is
\* given.
C27_RenderingKeepsNormalizedTerms ==
  (parse_pc = "done" /\ parse_fn = "parse_specification_text" /\ ~parse_out.raised)
    => ContextTermsOfDelivery(parse_out.value) = parse_out.value.terms_of_delivery

====
